---- MODULE Spec2Model ----
(***************************************************************************)
(* Thermalize web client (static/app.js): the orchestration layer of the   *)
(* browser UI as a state machine.  Every async handler is split at its     *)
(* awaits: the part before an await is one action, the continuation after  *)
(* the response is another.  The backend is an external collaborator that  *)
(* answers the requests of the HTTP contract.                              *)
(***************************************************************************)
EXTENDS Integers, Sequences, FiniteSets, Bags, TLC

(***************************************************************************)
(* Values                                                                  *)
(***************************************************************************)
\* JavaScript null, as held by currentImageId, globalConfig and callApi's result.
NULL == "null"

\* An optional value (a property a JSON object may lack): absent, or present.
None == <<>>
Some(v) == <<v>>
Get(o) == o[1]

(***************************************************************************)
(* Strings are sequences of one-character strings, so that replace() and   *)
(* toUpperCase() are computed character by character.                      *)
(***************************************************************************)
LowerCase == <<"a","b","c","d","e","f","g","h","i","j","k","l","m",
               "n","o","p","q","r","s","t","u","v","w","x","y","z">>
UpperCase == <<"A","B","C","D","E","F","G","H","I","J","K","L","M",
               "N","O","P","Q","R","S","T","U","V","W","X","Y","Z">>

\* String.prototype.toUpperCase on one character.
UpperChar(c) ==
    IF \E k \in DOMAIN LowerCase : LowerCase[k] = c
    THEN UpperCase[CHOOSE k \in DOMAIN LowerCase : LowerCase[k] = c]
    ELSE c

\* String.prototype.toUpperCase.
ToUpperCase(s) == [i \in DOMAIN s |-> UpperChar(s[i])]

\* String.prototype.replace(from, to) with a string pattern: only the FIRST
\* occurrence of the one-character pattern is replaced.
ReplaceFirst(s, from, to) ==
    IF \E i \in DOMAIN s : s[i] = from
    THEN LET first == CHOOSE i \in DOMAIN s :
                         /\ s[i] = from
                         /\ \A j \in DOMAIN s : s[j] = from => i <= j
         IN  [i \in DOMAIN s |-> IF i = first THEN to ELSE s[i]]
    ELSE s

\* The words the backend's dither method names are made of, and a name made of
\* words joined by underscores.
Words ==
    {<<"j","a","r","v","i","s">>, <<"j","u","d","i","c","e">>,
     <<"n","i","n","k","e">>}

RECURSIVE JoinWords(_)
JoinWords(ws) ==
    IF Len(ws) = 1 THEN ws[1] ELSE ws[1] \o <<"_">> \o JoinWords(Tail(ws))

\* 'floyd_steinberg', character by character.
FloydSteinberg ==
    <<"f","l","o","y","d","_","s","t","e","i","n","b","e","r","g">>
RawLabel == <<"R","A","W">>

\* The label computed from the dither method alone.
MethodLabelIgnoringRaw(dither_method, raw_mode) ==
    LET ditherMethod == IF dither_method = <<>> THEN FloydSteinberg
                        ELSE dither_method
    IN  ToUpperCase(ReplaceFirst(ditherMethod, "_", " "))

\* refreshGallery, "Get processing info": the label of an image whose
\* dither_method is the given string (<<>> when absent or empty) and whose
\* raw_mode is given or absent.
MethodLabel(dither_method, raw_mode) ==
    LET ditherMethod == IF dither_method = <<>> THEN FloydSteinberg
                        ELSE dither_method
        rawMode == IF raw_mode = None THEN FALSE ELSE Get(raw_mode)
    IN  IF rawMode THEN RawLabel
        ELSE ToUpperCase(ReplaceFirst(ditherMethod, "_", " "))

(***************************************************************************)
(* Bounds of the model                                                     *)
(***************************************************************************)
\* Control-input events the user makes in one run.
MaxInputs == 2
\* GPIO dropdown changes the user makes in one run.
MaxGpioChanges == 1
\* Invocations of one handler that may be awaiting a response at once.
MaxInFlight == 1
\* The most words in a dither method's name.
MaxWords == 3
\* User actions on the printer controls.
MaxClicks == 2
\* Status checks awaiting their response at once.
MaxChecks == 2
\* Scans started.
MaxScans == 3
\* Scans awaiting their response at once.
MaxScansInFlight == 2

(***************************************************************************)
(* Domains                                                                 *)
(***************************************************************************)
\* let maxWidth = 640, and the fallback of loadConfig.
DefaultMaxWidth == 640
ImageIds == {"A", "B", "C"}
ButtonOrder == <<"1", "2", "3", "4">>
Buttons == {ButtonOrder[i] : i \in DOMAIN ButtonOrder}
\* Values the offset sliders take.
Offsets == {0, 5}
\* The options of the dither select.
DitherMethods == {"floyd_steinberg", "atkinson"}

\* The characters of a dither method's name; "" is an absent name.
Spell(name) ==
    CASE name = "floyd_steinberg" -> FloydSteinberg
      [] name = "atkinson" -> <<"a","t","k","i","n","s","o","n">>
      [] name = "" -> <<>>

\* Number to string, as the DOM stores a number assigned to input.value.
NumberToString(n) == CASE n = 0 -> "0" [] n = 5 -> "5"
\* parseInt on the decimal strings a slider holds.
ParseInt(s) == CASE s = "0" -> 0 [] s = "5" -> 5

\* The three guarded printer actions and the labels of their buttons.
ButtonActs == {"reconnect", "disconnect", "unpair"}
OriginalText(a) ==
    CASE a = "reconnect" -> "Reconnect"
      [] a = "disconnect" -> "Disconnect"
      [] a = "unpair" -> "Unpair"
\* The label print-btn carries when the page loads.
PrintLabel == "Print"
\* Connection types, protocols and the devices a scan may find.
ConnectionTypes == {"usb", "bluetooth"}
Protocols == {"escpos", "tspl"}
Macs == {"M1", "M2"}

\* How a POST to the printer ends: {success: true}, a body with success false,
\* or null from callApi.
Results == {"success", "rejected", "fail"}

\* How a request ends: the backend handles it and answers, or the transport
\* fails and callApi returns null.  The backend handles a request at the moment
\* its response is delivered.
Outcomes == {"ok", "fail"}

(***************************************************************************)
(* State                                                                   *)
(***************************************************************************)
VARIABLES
    \* ---- backend ----
    srvImages,        \* the stored images (records)
    srvUsed,          \* image ids the backend has ever given out
    srvConfig,       \* the stored configuration
    \* ---- app.js module state ----
    currentImageId,
    debounceTimer,    \* handle of the last timeout scheduled, 0 for null
    globalConfig,     \* None for null, Some(config)
    maxWidth,
    \* ---- browser ----
    timers,           \* the debounce timeouts pending in the event loop
    \* ---- DOM ----
    controls,         \* UI.controls: each [v |-> value, by |-> who entered it]
    valueDisplay,     \* x-offset-val, y-offset-val
    previewOpacity,
    previewSrc,
    previewWidth,
    editorHidden,
    settingsHidden,
    galleryDisplay,
    gallery,          \* [cards |-> rendered cards, placeholder |-> "No images yet"]
    gpioSelect,       \* value of gpio-btn-N
    gpioOptions,      \* image ids offered by the gpio selects
    gpioPreview,      \* image shown by gpio-preview-N, "" when hidden
    uploadBtnText,
    printerUi,        \* connection-type, bluetooth-controls, protocol-select,
                      \* current-bt-device, bt-disconnect-row
    \* ---- async invocations awaiting a response ----
    procTasks,        \* debounce callbacks awaiting POST .../process
    galTasks,         \* refreshGallery awaiting GET /api/images
    delTasks,         \* deleteCurrentImage awaiting DELETE
    cfgTasks,         \* loadConfig awaiting GET /api/config, then GET /api/images
    gpioTasks,        \* handleGpioChange awaiting POST /api/config
    uploadTasks,      \* handleUpload awaiting POST /api/upload
    \* ---- printer session: DOM ----
    statusBar,        \* printer-status-text and the class of status-dot
    btn,              \* reconnect-printer-btn, disconnect-bt-btn, unpair-bt-btn:
                      \* [disabled, text]
    btnTimers,        \* pending 2 s timeouts that restore a button
    loaderHidden,     \* bt-loader carries the class hidden
    btList,           \* bt-device-list: [kind, macs, detail, found]
    pollStarted,      \* setInterval(checkStatus, 5000) has been called
    \* ---- printer session: async invocations awaiting a response ----
    statusTasks,      \* checkStatus awaiting GET /api/printer/status
    btnTasks,         \* reconnectPrinter, disconnectBluetooth, unpairBluetooth
    scanTasks,        \* scanBluetooth awaiting the scan
    connTasks,        \* connectBluetooth
    swTasks,          \* handleConnectionSwitch, handleProtocolSwitch
    \* ---- one card of a render, for the label of any image ----
    labelImg,         \* the image's dither_method and raw_mode
    labelText,        \* the text of its image-info element
    \* ---- one run of callApi, for any request and any answer ----
    api,              \* the request, what the network did, what callApi did
    \* ---- history, read only by the properties ----
    nInputs,
    nBursts,
    nProcess,
    nGpio,
    lastConfirmed,
    nClicks,          \* user actions on the printer controls and on print-btn
    nShown,           \* times scanBluetooth has shown the loader
    nCleared,         \* times scanBluetooth has hidden the loader
    exits,            \* the ways scanBluetooth has ended
    lastStatus,       \* the last non-null status response and what asked for it
    declined,         \* the destructive action whose confirmation was last declined
    lastConnect,      \* what callApi last gave connectBluetooth, and for which device
    \* ---- editor: the print button ----
    printBtn,         \* print-btn: [disabled, text]
    printTasks,       \* printCurrentImage awaiting POST .../print
    printTimers,      \* pending 2 s timeouts that restore print-btn
    lastPrint         \* how the last print request ended, "" before the first

srvVars == <<srvImages, srvUsed, srvConfig>>
editVars == <<currentImageId, controls, valueDisplay, previewSrc>>
timerVars == <<debounceTimer, timers, nInputs, nBursts>>
modalVars == <<editorHidden, settingsHidden, galleryDisplay>>
cfgVars == <<globalConfig, maxWidth, previewWidth, printerUi, lastConfirmed>>
gpioVars == <<gpioSelect, gpioOptions, gpioPreview>>
procVars == <<procTasks, nProcess, previewOpacity>>
otherTasks == <<delTasks, gpioTasks, uploadTasks, uploadBtnText, nGpio>>

labelVars == <<labelImg, labelText>>
\* What only a few handlers write.
\* printCurrentImage's button, requests and timeouts.
printVars == <<printBtn, printTasks, printTimers, lastPrint>>
auxVars == <<labelVars, printVars, api, declined, lastConnect>>
\* What the image, config and gallery handlers never write.
statusVars == <<statusBar, statusTasks, pollStarted, lastStatus>>
btnVars == <<btn, btnTimers, btnTasks>>
scanVars == <<loaderHidden, btList, scanTasks, connTasks, nShown, nCleared, exits>>
deviceVars == <<auxVars, statusVars, btnVars, scanVars, swTasks, nClicks>>

\* What the printer, scan and status handlers never write: all of appVars
\* apart from the backend's config and the printer settings of the page.
appRest == <<srvImages, srvUsed, editVars, timerVars, modalVars, globalConfig,
             maxWidth, previewWidth, lastConfirmed, gpioVars, procVars,
             otherTasks, gallery, galTasks, cfgTasks>>

appVars == <<srvVars, editVars, timerVars, modalVars, cfgVars, gpioVars, procVars,
             otherTasks, gallery, galTasks, cfgTasks>>

vars == <<deviceVars, appVars>>

(***************************************************************************)
(* The backend, from its HTTP contract                                     *)
(***************************************************************************)
\* An image as the backend lists it right after its upload.
FreshImage(id) ==
    [id |-> id, position |-> None, dither_method |-> "",
     auto_fit |-> None, raw_mode |-> None]

\* The image after POST /api/images/{id}/process stored the payload.
ProcessedImage(id, payload) ==
    [id |-> id,
     position |-> Some([x |-> payload.x_offset, y |-> payload.y_offset]),
     dither_method |-> payload.dither_method,
     auto_fit |-> Some(payload.auto_fit),
     raw_mode |-> Some(payload.raw_mode)]

SrvHas(id) == \E img \in srvImages : img.id = id

\* POST /api/images/{id}/process: store the settings of an existing image.
SrvProcessed(id, payload) ==
    {IF img.id = id THEN ProcessedImage(id, payload) ELSE img : img \in srvImages}

\* DELETE /api/images/{id}.
SrvDeleted(id) == {img \in srvImages : img.id # id}
\* The config after a DELETE that also unassigns the image's buttons.
SrvUnassigned(id) ==
    [srvConfig EXCEPT !.button_assignments =
        [b \in Buttons |-> IF @[b] = id THEN NULL ELSE @[b]]]

\* POST /api/config with a partial document: only the fields given are stored.
SrvConfigMerged(body) ==
    [f \in DOMAIN srvConfig |-> IF f \in DOMAIN body THEN body[f] ELSE srvConfig[f]]

\* The images the backend starts with: one as uploaded, one processed before.
InitialImages ==
    {FreshImage("A"),
     ProcessedImage("B", [x_offset |-> 5, y_offset |-> 0, auto_fit |-> FALSE,
                          dither_method |-> "atkinson", raw_mode |-> FALSE])}

\* The configuration the backend starts with.
InitialConfig ==
    [image_settings |-> [max_width |-> 384],
     printer |-> [type |-> "usb", protocol |-> "escpos", bluetooth_mac |-> ""],
     button_assignments |-> [b \in Buttons |-> IF b = "1" THEN "A" ELSE NULL]]

(***************************************************************************)
(* Bags of invocations                                                     *)
(***************************************************************************)
Add(bag, t) == bag (+) SetToBag({t})
Remove(bag, t) == bag (-) SetToBag({t})
Replace(bag, t, u) == Add(Remove(bag, t), u)
Room(bag) == BagCardinality(bag) < MaxInFlight


(***************************************************************************)
(* Pure parts of the handlers                                              *)
(***************************************************************************)
\* openEditor, "Load Settings": the five controls as loaded from an image.
LoadSettings(image) ==
    [xOffset |-> [v |-> NumberToString(IF image.position = None THEN 0
                                       ELSE Get(image.position).x),
                  by |-> NULL],
     yOffset |-> [v |-> NumberToString(IF image.position = None THEN 0
                                       ELSE Get(image.position).y),
                  by |-> NULL],
     dither  |-> [v |-> IF image.dither_method = "" THEN "floyd_steinberg"
                        ELSE image.dither_method,
                  by |-> NULL],
     autoFit |-> [v |-> IF image.auto_fit = None THEN TRUE
                        ELSE Get(image.auto_fit) # FALSE,
                  by |-> NULL],
     rawMode |-> [v |-> IF image.raw_mode = None THEN FALSE
                        ELSE Get(image.raw_mode),
                  by |-> NULL]]

\* The debounce callback's payload, read from the controls.
PayloadOf(ctl) ==
    [x_offset |-> ParseInt(ctl.xOffset.v),
     y_offset |-> ParseInt(ctl.yOffset.v),
     auto_fit |-> ctl.autoFit.v,
     dither_method |-> ctl.dither.v,
     raw_mode |-> ctl.rawMode.v]

\* updateValueDisplay.
DisplayOf(ctl) == [x |-> ctl.xOffset.v, y |-> ctl.yOffset.v]

\* refreshGallery, "Check which button(s) are assigned to this image": the
\* button numbers of the badge, in the order of Object.entries; <<>> is no badge.
ButtonBadge(cfg, id) ==
    IF cfg = None THEN <<>>
    ELSE SelectSeq(ButtonOrder,
                   LAMBDA b : Get(cfg).button_assignments[b] = id)

\* One card of the gallery: the image it opens and its badge.  Its label is
\* CardLabel, a function of the image alone.
Card(cfg, img) == [img |-> img, badge |-> ButtonBadge(cfg, img.id)]

CardLabel(card) == MethodLabel(Spell(card.img.dither_method), card.img.raw_mode)

\* refreshGallery after its await: the gallery it renders.
Rendered(cfg, ok, images) ==
    IF ok /\ images # {}
    THEN [cards |-> {Card(cfg, img) : img \in images}, placeholder |-> FALSE]
    ELSE [cards |-> {}, placeholder |-> TRUE]

\* Assigning v to select.value: the option is selected when it exists,
\* otherwise no option is selected and the value reads "".
SelectValue(options, v) == IF v \in options THEN v ELSE ""

\* populateGpioDropdowns after its await: the four selects.
PopulatedSelect(assignments, images) ==
    [b \in Buttons |->
        IF assignments[b] # NULL
        THEN SelectValue({img.id : img \in images}, assignments[b])
        ELSE ""]

\* populateGpioDropdowns: updateGpioPreview of each button.
PopulatedPreview(assignments) ==
    [b \in Buttons |-> IF assignments[b] # NULL THEN assignments[b] ELSE ""]

\* handleGpioChange: the mapping read back from the four selects.
AssignmentsOf(select) ==
    [b \in Buttons |-> IF select[b] = "" THEN NULL ELSE select[b]]

\* loadConfig, "Update printer settings UI" and updateBluetoothDeviceDisplay.
PrinterUiOf(ui, cfg) ==
    IF cfg = None
    THEN [ui EXCEPT !.btDevice = "None", !.btDisconnectRow = "none"]
    ELSE LET pr == Get(cfg).printer
         IN  [connectionType |-> pr.type,
              btControlsHidden |-> pr.type # "bluetooth",
              protocol |-> pr.protocol,
              btDevice |-> IF pr.bluetooth_mac # "" THEN pr.bluetooth_mac
                           ELSE "None",
              btDisconnectRow |-> IF pr.bluetooth_mac # "" THEN "flex"
                                  ELSE "none"]

\* A refreshGallery call at its await: what called it and, for the property
\* of deleteCurrentImage, the image the backend has just deleted.
GalleryCall(cause, gone) == [cause |-> cause, gone |-> gone]

\* A loadConfig call at its first await; then is what its caller does after it.
LoadConfigCall(then) == [pc |-> "config", then |-> then, cfg |-> None]

(***************************************************************************)
(* Initial state: DOMContentLoaded has run initListeners and has called    *)
(* loadConfig, refreshGallery and initPolling, each now at its first await.*)
(***************************************************************************)
Init ==
    /\ srvImages = InitialImages
    /\ srvUsed = {img.id : img \in InitialImages}
    /\ srvConfig = InitialConfig
    /\ currentImageId = NULL
    /\ debounceTimer = 0
    /\ globalConfig = None
    /\ maxWidth = DefaultMaxWidth
    /\ timers = {}
    /\ controls = LoadSettings(FreshImage("A"))
    /\ valueDisplay = DisplayOf(LoadSettings(FreshImage("A")))
    /\ previewOpacity = "1"
    /\ previewSrc = NULL
    /\ previewWidth = DefaultMaxWidth
    /\ editorHidden = TRUE
    /\ settingsHidden = TRUE
    /\ galleryDisplay = ""
    /\ gallery = [cards |-> {}, placeholder |-> FALSE]
    /\ gpioSelect = [b \in Buttons |-> ""]
    /\ gpioOptions = {}
    /\ gpioPreview = [b \in Buttons |-> ""]
    /\ uploadBtnText = "Upload Image"
    /\ printerUi = [connectionType |-> "usb", btControlsHidden |-> TRUE,
                    protocol |-> "escpos", btDevice |-> "None",
                    btDisconnectRow |-> "none"]
    /\ procTasks = EmptyBag
    /\ galTasks = SetToBag({GalleryCall("startup", NULL)})
    /\ delTasks = EmptyBag
    /\ cfgTasks = SetToBag({LoadConfigCall("none")})
    /\ gpioTasks = EmptyBag
    /\ uploadTasks = EmptyBag
    /\ statusBar = [text |-> "", dot |-> ""]
    /\ btn = [a \in ButtonActs |-> [disabled |-> FALSE, text |-> OriginalText(a)]]
    /\ btnTimers = EmptyBag
    /\ loaderHidden = TRUE
    /\ btList = [kind |-> "empty", macs |-> <<>>, detail |-> "", found |-> <<>>]
    /\ pollStarted = FALSE
    /\ statusTasks = SetToBag({"startup"})
    /\ btnTasks = EmptyBag
    /\ scanTasks = EmptyBag
    /\ connTasks = EmptyBag
    /\ swTasks = EmptyBag
    /\ nClicks = 0
    /\ nShown = 0
    /\ nCleared = 0
    /\ exits = {}
    /\ lastStatus = None
    /\ declined = ""
    /\ lastConnect = None
    /\ api = None
    /\ printBtn = [disabled |-> FALSE, text |-> PrintLabel]
    /\ printTasks = EmptyBag
    /\ printTimers = EmptyBag
    /\ lastPrint = ""
    /\ labelImg = [dither_method |-> <<>>, raw_mode |-> None]
    /\ labelText = <<>>
    /\ nInputs = 0
    /\ nBursts = 0
    /\ nProcess = 0
    /\ nGpio = 0
    /\ lastConfirmed = None

(***************************************************************************)
(* Modals                                                                  *)
(***************************************************************************)
NoModalOpen == editorHidden /\ settingsHidden

\* The global click listener on a .close-btn whose data-target is the editor.
CloseEditor ==
    /\ ~editorHidden
    /\ editorHidden' = TRUE
    /\ galleryDisplay' = ""
    /\ UNCHANGED <<deviceVars, settingsHidden, srvVars, editVars, timerVars, cfgVars,
                   gpioVars, procVars, otherTasks, gallery, galTasks, cfgTasks>>

\* The global click listener on a .close-btn whose data-target is the settings.
CloseSettings ==
    /\ ~settingsHidden
    /\ settingsHidden' = TRUE
    /\ galleryDisplay' = ""
    /\ UNCHANGED <<deviceVars, editorHidden, srvVars, editVars, timerVars, cfgVars,
                   gpioVars, procVars, otherTasks, gallery, galTasks, cfgTasks>>

(***************************************************************************)
(* Editor                                                                  *)
(***************************************************************************)
\* openEditor without the load of the image's settings into the controls.
OpenEditorKeepingControls(image) ==
    /\ NoModalOpen
    /\ galleryDisplay = ""
    /\ currentImageId' = image.id
    /\ previewSrc' = image.id
    /\ editorHidden' = FALSE
    /\ galleryDisplay' = "none"
    /\ UNCHANGED <<deviceVars, controls, valueDisplay, settingsHidden, srvVars,
                   timerVars, cfgVars, gpioVars, procVars, otherTasks, gallery,
                   galTasks, cfgTasks>>

\* A click on a gallery card: openEditor(img) with the image of the render.
OpenEditor(image) ==
    /\ NoModalOpen
    /\ galleryDisplay = ""
    /\ currentImageId' = image.id
    /\ controls' = LoadSettings(image)
    /\ valueDisplay' = DisplayOf(LoadSettings(image))
    /\ previewSrc' = image.id
    /\ editorHidden' = FALSE
    /\ galleryDisplay' = "none"
    /\ UNCHANGED <<deviceVars, settingsHidden, srvVars, timerVars, cfgVars, gpioVars,
                   procVars, otherTasks, gallery, galTasks, cfgTasks>>

\* scheduleProcessUpdate without its clearTimeout.
ScheduledKeepingPending(pending, handle, tid, target) ==
    pending \cup {[tid |-> tid, schedId |-> target]}

\* scheduleProcessUpdate: the pending timeouts after clearTimeout and setTimeout.
\* A timeout remembers the image that was current when it was scheduled.
Scheduled(pending, handle, tid, target) ==
    {t \in pending : handle = 0 \/ t.tid # handle}
        \cup {[tid |-> tid, schedId |-> target]}

\* scheduleProcessUpdate without the assignment of setTimeout's handle to
\* debounceTimer.
ControlInputForgettingHandle(c, v) ==
    /\ ~editorHidden
    /\ nInputs < MaxInputs
    /\ controls[c].v # v
    /\ controls' = [controls EXCEPT ![c] = [v |-> v, by |-> currentImageId]]
    /\ valueDisplay' = DisplayOf(controls')
    /\ timers' = Scheduled(timers, debounceTimer, nInputs + 1, currentImageId)
    /\ nInputs' = nInputs + 1
    /\ nBursts' = IF timers = {} THEN nBursts + 1 ELSE nBursts
    /\ UNCHANGED <<deviceVars, currentImageId, previewSrc, srvVars, modalVars, cfgVars,
                   gpioVars, procVars, otherTasks, gallery, galTasks, cfgTasks,
                   debounceTimer>>

\* An input event on one of the five controls: updateValueDisplay and
\* scheduleProcessUpdate.
ControlInput(c, v) ==
    /\ ~editorHidden
    /\ nInputs < MaxInputs
    /\ controls[c].v # v
    /\ controls' = [controls EXCEPT ![c] = [v |-> v, by |-> currentImageId]]
    /\ valueDisplay' = DisplayOf(controls')
    /\ timers' = Scheduled(timers, debounceTimer, nInputs + 1, currentImageId)
    /\ debounceTimer' = nInputs + 1
    /\ nInputs' = nInputs + 1
    /\ nBursts' = IF timers = {} THEN nBursts + 1 ELSE nBursts
    /\ UNCHANGED <<deviceVars, currentImageId, previewSrc, srvVars, modalVars, cfgVars,
                   gpioVars, procVars, otherTasks, gallery, galTasks, cfgTasks>>

\* The user moves a slider, picks a method or ticks a checkbox; the other
\* slider and the other checkbox have the same listener and keep the value
\* openEditor gave them.
Input ==
    \/ \E v \in {NumberToString(n) : n \in Offsets} : ControlInput("xOffset", v)
    \/ \E v \in DitherMethods : ControlInput("dither", v)
    \/ \E v \in BOOLEAN : ControlInput("rawMode", v)

\* The request the debounce callback issues.  For the properties it remembers
\* the controls it read, the image the timeout was scheduled for and whether
\* the editor was closed when it fired.
ProcessCall(id, ctl, t, hidden) ==
    [id |-> id, payload |-> PayloadOf(ctl), ctl |-> ctl, schedId |-> t.schedId,
     closed |-> hidden]

\* The debounce timeout fires: the callback up to its await.
TimerFire(t) ==
    /\ t \in timers
    /\ timers' = timers \ {t}
    /\ IF currentImageId = NULL
       THEN UNCHANGED procVars
       ELSE /\ previewOpacity' = "0.5"
            /\ procTasks' = Add(procTasks, ProcessCall(currentImageId, controls, t,
                                                    editorHidden))
            /\ nProcess' = nProcess + 1
    /\ UNCHANGED <<deviceVars, debounceTimer, nInputs, nBursts, srvVars, editVars, modalVars,
                   cfgVars, gpioVars, otherTasks, gallery, galTasks, cfgTasks>>

\* The debounce callback after its await, without the call of refreshGallery.
ProcessReturnWithoutRefresh(t, outcome) ==
    /\ BagIn(t, procTasks)
    /\ srvImages' = IF outcome = "ok" THEN SrvProcessed(t.id, t.payload)
                    ELSE srvImages
    /\ procTasks' = Remove(procTasks, t)
    /\ previewSrc' = IF currentImageId = NULL THEN previewSrc ELSE currentImageId
    /\ previewOpacity' = "1"
    /\ UNCHANGED <<deviceVars, srvUsed, srvConfig, nProcess, currentImageId, controls,
                   valueDisplay, timerVars, modalVars, cfgVars, gpioVars,
                   otherTasks, gallery, cfgTasks, galTasks>>

\* The debounce callback after its await: the backend has stored the settings
\* (or the request failed), then updatePreviewImage, the opacity, and the call
\* of refreshGallery.
ProcessReturn(t, outcome) ==
    /\ BagIn(t, procTasks)
    /\ Room(galTasks)
    /\ srvImages' = IF outcome = "ok" THEN SrvProcessed(t.id, t.payload)
                    ELSE srvImages
    /\ procTasks' = Remove(procTasks, t)
    /\ previewSrc' = IF currentImageId = NULL THEN previewSrc ELSE currentImageId
    /\ previewOpacity' = "1"
    /\ galTasks' = Add(galTasks, GalleryCall("process", NULL))
    /\ UNCHANGED <<deviceVars, srvUsed, srvConfig, nProcess, currentImageId, controls,
                   valueDisplay, timerVars, modalVars, cfgVars, gpioVars,
                   otherTasks, gallery, cfgTasks>>

(***************************************************************************)
(* Gallery                                                                 *)
(***************************************************************************)
\* refreshGallery after its await: the render of the list the backend returns.
\* A refresh awaited by handleUpload is followed by that handler's finally block.
GalleryReturn(t, outcome) ==
    /\ BagIn(t, galTasks)
    /\ galTasks' = Remove(galTasks, t)
    /\ gallery' = Rendered(globalConfig, outcome = "ok", srvImages)
    /\ uploadBtnText' = IF t.cause = "upload" THEN "Upload Image"
                        ELSE uploadBtnText
    /\ UNCHANGED <<deviceVars, delTasks, gpioTasks, uploadTasks, nGpio,
                   srvVars, editVars, timerVars, modalVars, cfgVars, gpioVars,
                   procVars, cfgTasks>>

\* The file input changes with a file chosen: handleUpload up to its await.
HandleUpload ==
    /\ NoModalOpen
    /\ Room(uploadTasks)
    /\ Cardinality(srvUsed) + BagCardinality(uploadTasks) < Cardinality(ImageIds)
    /\ uploadBtnText' = "Uploading..."
    /\ uploadTasks' = Add(uploadTasks, "upload")
    /\ UNCHANGED <<deviceVars, delTasks, gpioTasks, nGpio, srvVars, editVars,
                   timerVars, modalVars, cfgVars, gpioVars, procVars, gallery,
                   galTasks, cfgTasks>>

\* handleUpload after fetch: the backend has stored a new image under an id
\* never used (or the request failed); refreshGallery when res.ok, else the
\* finally block.
UploadReturn(t, id, outcome) ==
    /\ BagIn(t, uploadTasks)
    /\ id \notin srvUsed
    /\ uploadTasks' = Remove(uploadTasks, t)
    /\ IF outcome = "ok"
       THEN /\ Room(galTasks)
            /\ srvImages' = srvImages \cup {FreshImage(id)}
            /\ srvUsed' = srvUsed \cup {id}
            /\ galTasks' = Add(galTasks, GalleryCall("upload", NULL))
            /\ UNCHANGED uploadBtnText
       ELSE /\ uploadBtnText' = "Upload Image"
            /\ UNCHANGED <<srvImages, srvUsed, galTasks>>
    /\ UNCHANGED <<deviceVars, srvConfig, delTasks, gpioTasks, nGpio, editVars,
                   timerVars, modalVars, cfgVars, gpioVars, procVars, gallery,
                   cfgTasks>>

\* A click on delete-btn, confirmed: deleteCurrentImage up to its await.
DeleteConfirmed ==
    /\ ~editorHidden
    /\ currentImageId # NULL
    /\ Room(delTasks)
    /\ delTasks' = Add(delTasks, [id |-> currentImageId])
    /\ UNCHANGED <<deviceVars, gpioTasks, uploadTasks, uploadBtnText, nGpio,
                   srvVars, editVars, timerVars, modalVars, cfgVars, gpioVars,
                   procVars, gallery, galTasks, cfgTasks>>

\* A click on delete-btn, declined at confirm(): nothing happens.
DeleteDeclined ==
    /\ ~editorHidden
    /\ currentImageId # NULL
    /\ declined' = "delete"
    /\ UNCHANGED <<appVars, labelVars, printVars, api, lastConnect, statusVars, btnVars,
                   scanVars, swTasks, nClicks>>

\* deleteCurrentImage after its await, without the hiding of the editor.
DeleteReturnKeepingEditor(t, outcome, purge) ==
    /\ BagIn(t, delTasks)
    /\ Room(galTasks)
    /\ srvImages' = IF outcome = "ok" THEN SrvDeleted(t.id) ELSE srvImages
    /\ srvConfig' = IF outcome = "ok" /\ purge THEN SrvUnassigned(t.id)
                    ELSE srvConfig
    /\ delTasks' = Remove(delTasks, t)
    /\ galTasks' = Add(galTasks,
                       GalleryCall("delete", IF outcome = "ok" /\ SrvHas(t.id)
                                             THEN t.id ELSE NULL))
    /\ UNCHANGED <<deviceVars, srvUsed, modalVars, gpioTasks, uploadTasks,
                   uploadBtnText, nGpio, editVars, timerVars, cfgVars, gpioVars,
                   procVars, gallery, cfgTasks>>

\* deleteCurrentImage after its await: the backend has deleted the image, and
\* with it the image's button assignments or not (or the request failed); callApi's result is not looked at, the editor is
\* hidden and refreshGallery is called.
DeleteReturn(t, outcome, purge) ==
    /\ BagIn(t, delTasks)
    /\ Room(galTasks)
    /\ srvImages' = IF outcome = "ok" THEN SrvDeleted(t.id) ELSE srvImages
    /\ srvConfig' = IF outcome = "ok" /\ purge THEN SrvUnassigned(t.id)
                    ELSE srvConfig
    /\ delTasks' = Remove(delTasks, t)
    /\ editorHidden' = TRUE
    /\ galTasks' = Add(galTasks,
                       GalleryCall("delete", IF outcome = "ok" /\ SrvHas(t.id)
                                             THEN t.id ELSE NULL))
    /\ UNCHANGED <<deviceVars, srvUsed, settingsHidden, galleryDisplay, gpioTasks,
                   uploadTasks, uploadBtnText, nGpio, editVars,
                   timerVars, cfgVars, gpioVars, procVars, gallery, cfgTasks>>

(***************************************************************************)
(* Config cache and GPIO assignments                                       *)
(***************************************************************************)
\* A click on settings-btn: openModal('settings') and loadConfig.
OpenSettings ==
    /\ NoModalOpen
    /\ Room(cfgTasks)
    /\ settingsHidden' = FALSE
    /\ galleryDisplay' = "none"
    /\ cfgTasks' = Add(cfgTasks, LoadConfigCall("none"))
    /\ UNCHANGED <<deviceVars, editorHidden, srvVars, editVars, timerVars, cfgVars, gpioVars,
                   procVars, otherTasks, gallery, galTasks>>

\* What follows a finished loadConfig: handleGpioChange goes on to refreshGallery.
AfterLoadConfig(t) ==
    IF t.then = "gallery"
    THEN /\ Room(galTasks)
         /\ galTasks' = Add(galTasks, GalleryCall("gpio", NULL))
    ELSE UNCHANGED galTasks

\* config.image_settings.max_width || 640.
MaxWidthOf(cfg) ==
    IF cfg.image_settings.max_width = 0 THEN DefaultMaxWidth
    ELSE cfg.image_settings.max_width

\* loadConfig after GET /api/config: the cache, the width, and either the call
\* of populateGpioDropdowns or, for a null config, the rest of the function.
LoadConfigGotConfig(t, outcome) ==
    /\ BagIn(t, cfgTasks) /\ t.pc = "config"
    /\ IF outcome = "fail"
       THEN /\ globalConfig' = None
            /\ UNCHANGED <<maxWidth, previewWidth, lastConfirmed>>
            /\ printerUi' = PrinterUiOf(printerUi, None)
            /\ cfgTasks' = Remove(cfgTasks, t)
            /\ AfterLoadConfig(t)
       ELSE /\ globalConfig' = Some(srvConfig)
            /\ lastConfirmed' = Some(srvConfig)
            /\ maxWidth' = MaxWidthOf(srvConfig)
            /\ previewWidth' = MaxWidthOf(srvConfig)
            /\ UNCHANGED <<printerUi, galTasks>>
            /\ cfgTasks' = Replace(cfgTasks, t, [t EXCEPT !.pc = "images",
                                                          !.cfg = Some(srvConfig)])
    /\ UNCHANGED <<deviceVars, srvVars, editVars, timerVars, modalVars, gpioVars, procVars,
                   otherTasks, gallery>>

\* populateGpioDropdowns after GET /api/images, and the rest of loadConfig.
LoadConfigGotImages(t, outcome) ==
    /\ BagIn(t, cfgTasks) /\ t.pc = "images"
    /\ cfgTasks' = Remove(cfgTasks, t)
    /\ IF outcome = "ok"
       THEN /\ gpioOptions' = {img.id : img \in srvImages}
            /\ gpioSelect' = PopulatedSelect(Get(t.cfg).button_assignments,
                                             srvImages)
            /\ gpioPreview' = PopulatedPreview(Get(t.cfg).button_assignments)
       ELSE UNCHANGED gpioVars
    /\ printerUi' = PrinterUiOf(printerUi, t.cfg)
    /\ AfterLoadConfig(t)
    /\ UNCHANGED <<deviceVars, globalConfig, maxWidth, previewWidth, lastConfirmed, srvVars,
                   editVars, timerVars, modalVars, procVars, otherTasks, gallery>>

\* The request handleGpioChange issues.  For the properties it remembers the
\* button that changed and the last config the backend had returned.
GpioCall(b, body, confirmed) == [body |-> body, btn |-> b, confirmed |-> confirmed]

\* The body handleGpioChange posts: { button_assignments: assignments }.
GpioBody(select) == [button_assignments |-> AssignmentsOf(select)]

\* handleGpioChange posting the cached config with the new mapping in it.
HandleGpioChangeSendingConfig(b, v) ==
    /\ ~settingsHidden
    /\ nGpio < MaxGpioChanges
    /\ Room(gpioTasks)
    /\ v \in gpioOptions \cup {""}
    /\ v # gpioSelect[b]
    /\ gpioSelect' = [gpioSelect EXCEPT ![b] = v]
    /\ gpioPreview' = [gpioPreview EXCEPT ![b] = v]
    /\ gpioTasks' = Add(gpioTasks,
                        GpioCall(b, IF globalConfig = None THEN GpioBody(gpioSelect')
                                    ELSE [Get(globalConfig) EXCEPT
                                            !.button_assignments = AssignmentsOf(gpioSelect')],
                                 lastConfirmed))
    /\ nGpio' = nGpio + 1
    /\ UNCHANGED <<deviceVars, gpioOptions, delTasks, uploadTasks, uploadBtnText, srvVars,
                   editVars, timerVars, modalVars, cfgVars, procVars, gallery,
                   galTasks, cfgTasks>>

\* A change event on gpio-btn-b, whose value the user has set to v:
\* handleGpioChange up to its await.
HandleGpioChange(b, v) ==
    /\ ~settingsHidden
    /\ nGpio < MaxGpioChanges
    /\ Room(gpioTasks)
    /\ v \in gpioOptions \cup {""}
    /\ v # gpioSelect[b]
    /\ gpioSelect' = [gpioSelect EXCEPT ![b] = v]
    /\ gpioPreview' = [gpioPreview EXCEPT ![b] = v]
    /\ gpioTasks' = Add(gpioTasks, GpioCall(b, GpioBody(gpioSelect'), lastConfirmed))
    /\ nGpio' = nGpio + 1
    /\ UNCHANGED <<deviceVars, gpioOptions, delTasks, uploadTasks, uploadBtnText, srvVars,
                   editVars, timerVars, modalVars, cfgVars, procVars, gallery,
                   galTasks, cfgTasks>>

\* handleGpioChange after its await: the backend has stored the mapping (or the
\* request failed); callApi's result is not looked at, loadConfig is called,
\* and refreshGallery after it.
GpioPosted(t, outcome) ==
    /\ BagIn(t, gpioTasks)
    /\ Room(cfgTasks)
    /\ srvConfig' = IF outcome = "ok" THEN SrvConfigMerged(t.body) ELSE srvConfig
    /\ gpioTasks' = Remove(gpioTasks, t)
    /\ cfgTasks' = Add(cfgTasks, LoadConfigCall("gallery"))
    /\ UNCHANGED <<deviceVars, srvImages, srvUsed, delTasks, uploadTasks, uploadBtnText,
                   nGpio, editVars, timerVars, modalVars, cfgVars,
                   gpioVars, procVars, gallery, galTasks>>

(***************************************************************************)
(* Printing the image of the editor                                        *)
(***************************************************************************)
\* A click on print-btn: printCurrentImage up to its await; the label is read
\* from the button before it is changed.
PrintCurrentImage ==
    /\ ~editorHidden
    /\ currentImageId # NULL
    /\ ~printBtn.disabled
    /\ nClicks < MaxClicks
    /\ nClicks' = nClicks + 1
    /\ printBtn' = [disabled |-> TRUE, text |-> "Printing..."]
    /\ printTasks' = Add(printTasks, [id |-> currentImageId, orig |-> printBtn.text])
    /\ UNCHANGED <<appVars, labelVars, api, declined, lastConnect, statusVars,
                   btnVars, scanVars, swTasks, printTimers, lastPrint>>

\* printCurrentImage after its await, scheduling the restore only when the
\* request succeeded.
PrintReturnRestoringOnSuccess(t, outcome) ==
    /\ BagIn(t, printTasks)
    /\ printTasks' = Remove(printTasks, t)
    /\ printTimers' = IF outcome = "ok"
                      THEN Add(printTimers, [orig |-> t.orig])
                      ELSE printTimers
    /\ lastPrint' = outcome
    /\ UNCHANGED <<appVars, labelVars, api, declined, lastConnect, statusVars,
                   btnVars, scanVars, swTasks, nClicks, printBtn>>

\* printCurrentImage after its await: the finally block schedules the restore
\* of the button, whatever callApi returned.
PrintReturn(t, outcome) ==
    /\ BagIn(t, printTasks)
    /\ printTasks' = Remove(printTasks, t)
    /\ printTimers' = Add(printTimers, [orig |-> t.orig])
    /\ lastPrint' = outcome
    /\ UNCHANGED <<appVars, labelVars, api, declined, lastConnect, statusVars,
                   btnVars, scanVars, swTasks, nClicks, printBtn>>

\* The 2 s timeout of printCurrentImage fires.
PrintTimerFire(tm) ==
    /\ BagIn(tm, printTimers)
    /\ printTimers' = Remove(printTimers, tm)
    /\ printBtn' = [disabled |-> FALSE, text |-> tm.orig]
    /\ UNCHANGED <<appVars, labelVars, api, declined, lastConnect, statusVars,
                   btnVars, scanVars, swTasks, nClicks, printTasks, lastPrint>>

(***************************************************************************)
(* Connectivity status                                                     *)
(***************************************************************************)
\* updateBluetoothDeviceDisplay(config); config may be null.
UpdateBluetoothDeviceDisplay(ui, cfg) ==
    IF cfg # None /\ Get(cfg).printer.bluetooth_mac # ""
    THEN [ui EXCEPT !.btDevice = Get(cfg).printer.bluetooth_mac,
                    !.btDisconnectRow = "flex"]
    ELSE [ui EXCEPT !.btDevice = "None", !.btDisconnectRow = "none"]

\* The bodies GET /api/printer/status may answer with: connected is absent,
\* true or false, status is absent ("") or a string.
StatusBodies ==
    [connected : {None, Some(TRUE), Some(FALSE)},
     status : {"", "connected", "disconnected"}]

\* A body that reports a connected printer.
Online == [connected |-> Some(TRUE), status |-> "connected"]

\* checkStatus with both fields required, in place of either.
IsConnectedBoth(data) ==
    data.connected = Some(TRUE) /\ data.status = "connected"

\* checkStatus: data.connected || data.status === 'connected'.
IsConnected(data) ==
    data.connected = Some(TRUE) \/ data.status = "connected"

\* checkStatus: the indicator for a non-null response.
StatusBarOf(data) ==
    [text |-> IF IsConnected(data) THEN "Online" ELSE "Offline",
     dot |-> IF IsConnected(data) THEN "status-indicator online"
             ELSE "status-indicator offline"]

\* Another checkStatus may start: nothing in the code limits their number.
StatusRoom == BagCardinality(statusTasks) < MaxChecks

\* A tick of setInterval(checkStatus, 5000): checkStatus up to its await.
PollTick ==
    /\ pollStarted
    /\ StatusRoom
    /\ statusTasks' = Add(statusTasks, "poll")
    /\ UNCHANGED <<appVars, auxVars, btnVars, scanVars, swTasks, nClicks,
                   statusBar, pollStarted, lastStatus>>

\* checkStatus showing Offline when callApi returned null.
CheckStatusReturnOfflineOnNull(t, data) ==
    /\ BagIn(t, statusTasks)
    /\ statusTasks' = Remove(statusTasks, t)
    /\ IF data = None
       THEN /\ statusBar' = StatusBarOf([connected |-> None, status |-> ""])
            /\ UNCHANGED lastStatus
       ELSE /\ statusBar' = StatusBarOf(Get(data))
            /\ lastStatus' = Some([body |-> Get(data), cause |-> t])
    /\ pollStarted' = (pollStarted \/ t = "startup")
    /\ UNCHANGED <<appVars, auxVars, btnVars, scanVars, swTasks, nClicks>>

\* checkStatus after its await; data is None when callApi returned null.  The
\* check awaited by initPolling is followed by setInterval.
CheckStatusReturn(t, data) ==
    /\ BagIn(t, statusTasks)
    /\ statusTasks' = Remove(statusTasks, t)
    /\ IF data = None
       THEN UNCHANGED <<statusBar, lastStatus>>
       ELSE /\ statusBar' = StatusBarOf(Get(data))
            /\ lastStatus' = Some([body |-> Get(data), cause |-> t])
    /\ pollStarted' = (pollStarted \/ t = "startup")
    /\ UNCHANGED <<appVars, auxVars, btnVars, scanVars, swTasks, nClicks>>

(***************************************************************************)
(* Reconnect, disconnect, unpair                                           *)
(***************************************************************************)
\* An invocation of one of the three handlers at an await.
ButtonCall(a, pc, orig) == [act |-> a, pc |-> pc, orig |-> orig]
\* setTimeout(() => { btn.textContent = originalText; btn.disabled = false }, 2000).
RestoreTimer(a, orig) == [act |-> a, orig |-> orig]

\* The start of a handler: the button is disabled and shows the busy label.
Busy(a, label) == [btn EXCEPT ![a] = [disabled |-> TRUE, text |-> label]]

\* A click on reconnect-printer-btn (a disabled button dispatches no click).
ReconnectPrinter ==
    /\ nClicks < MaxClicks
    /\ ~btn["reconnect"].disabled
    /\ nClicks' = nClicks + 1
    /\ btn' = Busy("reconnect", "Reconnecting...")
    /\ btnTasks' = Add(btnTasks,
                       ButtonCall("reconnect", "post", btn["reconnect"].text))
    /\ UNCHANGED <<appVars, auxVars, statusVars, scanVars, swTasks, btnTimers>>

\* reconnectPrinter scheduling the restoring timeout on success only.
ReconnectPostedRestoringOnSuccess(t, result) ==
    /\ BagIn(t, btnTasks) /\ t.act = "reconnect" /\ t.pc = "post"
    /\ StatusRoom
    /\ btn' = [btn EXCEPT !["reconnect"].text =
                   IF result = "success" THEN "Connected" ELSE "Failed"]
    /\ btnTimers' = IF result = "success"
                    THEN Add(btnTimers, RestoreTimer("reconnect", t.orig))
                    ELSE btnTimers
    /\ statusTasks' = Add(statusTasks, "manual")
    /\ btnTasks' = Replace(btnTasks, t, [t EXCEPT !.pc = "config"])
    /\ UNCHANGED <<appVars, auxVars, scanVars, swTasks, nClicks, statusBar,
                   pollStarted, lastStatus>>

\* reconnectPrinter after POST /api/printer/reconnect: the result label, the
\* restoring timeout, checkStatus, and GET /api/config.
ReconnectPosted(t, result) ==
    /\ BagIn(t, btnTasks) /\ t.act = "reconnect" /\ t.pc = "post"
    /\ StatusRoom
    /\ btn' = [btn EXCEPT !["reconnect"].text =
                   IF result = "success" THEN "Connected" ELSE "Failed"]
    /\ btnTimers' = Add(btnTimers, RestoreTimer("reconnect", t.orig))
    /\ statusTasks' = Add(statusTasks, "manual")
    /\ btnTasks' = Replace(btnTasks, t, [t EXCEPT !.pc = "config"])
    /\ UNCHANGED <<appVars, auxVars, scanVars, swTasks, nClicks, statusBar,
                   pollStarted, lastStatus>>

\* reconnectPrinter after GET /api/config.
ReconnectGotConfig(t, outcome) ==
    /\ BagIn(t, btnTasks) /\ t.act = "reconnect" /\ t.pc = "config"
    /\ btnTasks' = Remove(btnTasks, t)
    /\ printerUi' = IF outcome = "ok"
                    THEN UpdateBluetoothDeviceDisplay(printerUi, Some(srvConfig))
                    ELSE printerUi
    /\ UNCHANGED <<appRest, srvConfig, auxVars, statusVars, scanVars, swTasks,
                   nClicks, btn, btnTimers>>

\* A 2 s timeout of one of the three handlers fires.
RestoreTimerFire(tm) ==
    /\ BagIn(tm, btnTimers)
    /\ btnTimers' = Remove(btnTimers, tm)
    /\ btn' = [btn EXCEPT ![tm.act] = [disabled |-> FALSE, text |-> tm.orig]]
    /\ UNCHANGED <<appVars, auxVars, statusVars, scanVars, swTasks, nClicks,
                   btnTasks>>

\* A click on disconnect-bt-btn, confirmed.
DisconnectBluetooth ==
    /\ nClicks < MaxClicks
    /\ ~btn["disconnect"].disabled
    /\ nClicks' = nClicks + 1
    /\ btn' = Busy("disconnect", "Disconnecting...")
    /\ btnTasks' = Add(btnTasks,
                       ButtonCall("disconnect", "post", btn["disconnect"].text))
    /\ UNCHANGED <<appVars, auxVars, statusVars, scanVars, swTasks, btnTimers>>

\* disconnectBluetooth or unpairBluetooth showing the busy label before it asks
\* for confirmation.
ReturnEarlyBusy(a) ==
    /\ a \in ButtonActs \ {"reconnect"}
    /\ declined' = IF btn[a].disabled THEN declined ELSE a
    /\ btn' = IF btn[a].disabled THEN btn ELSE Busy(a, "...")
    /\ UNCHANGED <<appVars, labelVars, printVars, api, lastConnect, statusVars, btnTimers,
                   btnTasks, scanVars, swTasks, nClicks>>

\* disconnectBluetooth or unpairBluetooth returning early: the button is
\* disabled, or the user declines at confirm().
ReturnEarly(a) ==
    /\ a \in ButtonActs \ {"reconnect"}
    /\ declined' = IF btn[a].disabled THEN declined ELSE a
    /\ UNCHANGED <<appVars, labelVars, printVars, api, lastConnect, statusVars, btnVars,
                   scanVars, swTasks, nClicks>>

\* disconnectBluetooth after POST /api/printer/bluetooth/disconnect.
DisconnectPosted(t, result) ==
    /\ BagIn(t, btnTasks) /\ t.act = "disconnect"
    /\ StatusRoom
    /\ btn' = [btn EXCEPT !["disconnect"].text =
                   IF result = "success" THEN "Disconnected" ELSE "Failed"]
    /\ btnTimers' = Add(btnTimers, RestoreTimer("disconnect", t.orig))
    /\ statusTasks' = Add(statusTasks, "manual")
    /\ btnTasks' = Remove(btnTasks, t)
    /\ UNCHANGED <<appVars, auxVars, scanVars, swTasks, nClicks, statusBar,
                   pollStarted, lastStatus>>

\* A click on unpair-bt-btn, confirmed.
UnpairBluetooth ==
    /\ nClicks < MaxClicks
    /\ ~btn["unpair"].disabled
    /\ nClicks' = nClicks + 1
    /\ btn' = Busy("unpair", "Unpairing...")
    /\ btnTasks' = Add(btnTasks, ButtonCall("unpair", "post", btn["unpair"].text))
    /\ UNCHANGED <<appVars, auxVars, statusVars, scanVars, swTasks, btnTimers>>

\* unpairBluetooth ending after a successful POST as disconnectBluetooth does:
\* the restoring timeout and checkStatus, without GET /api/config.
UnpairPostedWithoutRefresh(t, result) ==
    /\ BagIn(t, btnTasks) /\ t.act = "unpair" /\ t.pc = "post"
    /\ StatusRoom
    /\ IF result = "success"
       THEN /\ srvConfig' = [srvConfig EXCEPT !.printer.bluetooth_mac = ""]
            /\ btn' = [btn EXCEPT !["unpair"].text = "Unpaired"]
            /\ btnTimers' = Add(btnTimers, RestoreTimer("unpair", t.orig))
       ELSE /\ btn' = [btn EXCEPT !["unpair"] =
                           [disabled |-> FALSE, text |-> t.orig]]
            /\ UNCHANGED <<srvConfig, btnTimers>>
    /\ btnTasks' = Remove(btnTasks, t)
    /\ statusTasks' = Add(statusTasks, "manual")
    /\ UNCHANGED <<appRest, printerUi, auxVars, scanVars, swTasks, nClicks,
                   statusBar, pollStarted, lastStatus>>

\* unpairBluetooth after POST /api/printer/bluetooth/unpair: on success the
\* backend has forgotten the device and GET /api/config follows; otherwise the
\* alert, the button restored at once, and checkStatus.
UnpairPosted(t, result) ==
    /\ BagIn(t, btnTasks) /\ t.act = "unpair" /\ t.pc = "post"
    /\ IF result = "success"
       THEN /\ srvConfig' = [srvConfig EXCEPT !.printer.bluetooth_mac = ""]
            /\ btn' = [btn EXCEPT !["unpair"].text = "Unpaired"]
            /\ btnTasks' = Replace(btnTasks, t, [t EXCEPT !.pc = "config"])
            /\ UNCHANGED statusTasks
       ELSE /\ StatusRoom
            /\ btn' = [btn EXCEPT !["unpair"] =
                           [disabled |-> FALSE, text |-> t.orig]]
            /\ btnTasks' = Remove(btnTasks, t)
            /\ statusTasks' = Add(statusTasks, "manual")
            /\ UNCHANGED srvConfig
    /\ UNCHANGED <<appRest, printerUi, auxVars, scanVars, swTasks, nClicks,
                   statusBar, pollStarted, lastStatus, btnTimers>>

\* unpairBluetooth after GET /api/config: the device display for the config or
\* for null, the restoring timeout, and checkStatus.
UnpairGotConfig(t, outcome) ==
    /\ BagIn(t, btnTasks) /\ t.act = "unpair" /\ t.pc = "config"
    /\ StatusRoom
    /\ printerUi' = UpdateBluetoothDeviceDisplay(
                        printerUi, IF outcome = "ok" THEN Some(srvConfig) ELSE None)
    /\ btnTimers' = Add(btnTimers, RestoreTimer("unpair", t.orig))
    /\ statusTasks' = Add(statusTasks, "manual")
    /\ btnTasks' = Remove(btnTasks, t)
    /\ UNCHANGED <<appRest, srvConfig, auxVars, scanVars, swTasks, nClicks,
                   statusBar, pollStarted, lastStatus, btn>>

(***************************************************************************)
(* Bluetooth scan and connect, connection type and protocol                *)
(***************************************************************************)
\* What the scan request may answer with: null, or a body whose devices field
\* is absent or lists the devices found.
ScanResponses ==
    {None} \cup {Some([devices |-> d]) :
                    d \in {None, Some(<<>>), Some(<<"M1">>), Some(<<"M1", "M2">>)}}

\* response?.devices || [].
DevicesOf(response) ==
    IF response = None \/ Get(response).devices = None THEN <<>>
    ELSE Get(Get(response).devices)

\* The contents of bt-device-list after an assignment to its innerHTML: empty
\* or one message; found holds the device entries appended since.
ListOf(kind, macs) == [kind |-> kind, macs |-> macs, detail |-> "", found |-> <<>>]

\* The entries scanBluetooth appends, one per device; for the properties an
\* entry remembers the invocation that appended it.
EntriesOf(devices, scan) ==
    [i \in DOMAIN devices |-> [mac |-> devices[i], scan |-> scan]]

\* devices.forEach(... list.appendChild(li)), or the message when there is none.
ListAfterScan(list, devices, scan) ==
    IF devices # <<>>
    THEN [list EXCEPT !.found = @ \o EntriesOf(devices, scan)]
    ELSE ListOf("No devices found", <<>>)

\* Another scanBluetooth may start: nothing in the code limits their number.
ScanRoom == BagCardinality(scanTasks) < MaxScansInFlight

\* What the connect request may answer with: null, success, or a failure with
\* or without an error text ("" for an absent or empty error field).
ConnectResults ==
    {None, Some([success |-> TRUE, error |-> ""]),
     Some([success |-> FALSE, error |-> "Device not found"]),
     Some([success |-> FALSE, error |-> ""])}

\* result?.success
Succeeded(result) == result # None /\ Get(result).success

\* result?.error || 'See logs'
ErrorOf(result) ==
    IF result # None /\ Get(result).error # "" THEN Get(result).error
    ELSE "See logs"

\* The list after a failed connect: the device and the error text.
FailedList(mac, detail) ==
    [kind |-> "Failed to connect", macs |-> <<mac>>, detail |-> detail, found |-> <<>>]

\* How an invocation of scanBluetooth has ended.
ExitOf(response) ==
    IF response = None THEN "failed"
    ELSE IF DevicesOf(response) = <<>> THEN "none" ELSE "devices"

\* A click on scan-bt-btn: scanBluetooth up to its await.
ScanBluetooth ==
    /\ nShown < MaxScans
    /\ ScanRoom
    /\ btList' = ListOf("empty", <<>>)
    /\ loaderHidden' = FALSE
    /\ nShown' = nShown + 1
    /\ scanTasks' = Add(scanTasks, [scan |-> nShown + 1])
    /\ UNCHANGED <<appVars, auxVars, statusVars, btnVars, swTasks, nClicks,
                   connTasks, nCleared, exits>>

\* scanBluetooth after its await, hiding the loader only when the scan
\* answered.
ScanReturnHidingOnAnswer(t, response) ==
    /\ BagIn(t, scanTasks)
    /\ scanTasks' = Remove(scanTasks, t)
    /\ loaderHidden' = (loaderHidden \/ response # None)
    /\ nCleared' = nCleared + (IF response # None THEN 1 ELSE 0)
    /\ exits' = exits \cup {ExitOf(response)}
    /\ btList' = ListAfterScan(btList, DevicesOf(response), t.scan)
    /\ UNCHANGED <<appVars, auxVars, statusVars, btnVars, swTasks, nClicks,
                   connTasks, nShown>>

\* scanBluetooth after its await: the loader is hidden and the list shows the
\* devices or "No devices found"; callApi does not throw, so the catch block
\* is not entered.
ScanReturn(t, response) ==
    /\ BagIn(t, scanTasks)
    /\ scanTasks' = Remove(scanTasks, t)
    /\ loaderHidden' = TRUE
    /\ nCleared' = nCleared + 1
    /\ exits' = exits \cup {ExitOf(response)}
    /\ btList' = ListAfterScan(btList, DevicesOf(response), t.scan)
    /\ UNCHANGED <<appVars, auxVars, statusVars, btnVars, swTasks, nClicks,
                   connTasks, nShown>>

\* A click on a listed device: connectBluetooth up to its await.
ConnectBluetooth(mac) ==
    /\ nClicks < MaxClicks
    /\ Room(connTasks)
    /\ \E i \in DOMAIN btList.found : btList.found[i].mac = mac
    /\ nClicks' = nClicks + 1
    /\ btList' = ListOf("Connecting", <<mac>>)
    /\ connTasks' = Add(connTasks, [mac |-> mac, pc |-> "post"])
    /\ UNCHANGED <<appVars, auxVars, statusVars, btnVars, swTasks,
                   loaderHidden, scanTasks, nShown, nCleared, exits>>

\* connectBluetooth showing 'See logs' for every failure.
ConnectPostedGeneric(t, result) ==
    /\ BagIn(t, connTasks) /\ t.pc = "post"
    /\ StatusRoom
    /\ statusTasks' = Add(statusTasks, "manual")
    /\ lastConnect' = Some([mac |-> t.mac, result |-> result,
                            flip |-> lastConnect = None \/ ~Get(lastConnect).flip])
    /\ IF Succeeded(result)
       THEN /\ srvConfig' = [srvConfig EXCEPT !.printer.bluetooth_mac = t.mac]
            /\ btList' = ListOf("Connected", <<t.mac>>)
            /\ connTasks' = Replace(connTasks, t, [t EXCEPT !.pc = "config"])
       ELSE /\ btList' = FailedList(t.mac, "See logs")
            /\ connTasks' = Remove(connTasks, t)
            /\ UNCHANGED srvConfig
    /\ UNCHANGED <<appRest, printerUi, labelVars, printVars, api, declined, btnVars, swTasks,
                   nClicks, statusBar, pollStarted, lastStatus, loaderHidden,
                   scanTasks, nShown, nCleared, exits>>

\* connectBluetooth after POST /api/printer/bluetooth/connect: checkStatus, and
\* on success the backend has stored the device and GET /api/config follows;
\* otherwise the list shows the error text of the result, or 'See logs'.
ConnectPosted(t, result) ==
    /\ BagIn(t, connTasks) /\ t.pc = "post"
    /\ StatusRoom
    /\ statusTasks' = Add(statusTasks, "manual")
    /\ lastConnect' = Some([mac |-> t.mac, result |-> result,
                            flip |-> lastConnect = None \/ ~Get(lastConnect).flip])
    /\ IF Succeeded(result)
       THEN /\ srvConfig' = [srvConfig EXCEPT !.printer.bluetooth_mac = t.mac]
            /\ btList' = ListOf("Connected", <<t.mac>>)
            /\ connTasks' = Replace(connTasks, t, [t EXCEPT !.pc = "config"])
       ELSE /\ btList' = FailedList(t.mac, ErrorOf(result))
            /\ connTasks' = Remove(connTasks, t)
            /\ UNCHANGED srvConfig
    /\ UNCHANGED <<appRest, printerUi, labelVars, printVars, api, declined, btnVars, swTasks,
                   nClicks, statusBar, pollStarted, lastStatus, loaderHidden,
                   scanTasks, nShown, nCleared, exits>>

\* connectBluetooth after GET /api/config: the device display for the config
\* or for null.
ConnectGotConfig(t, outcome) ==
    /\ BagIn(t, connTasks) /\ t.pc = "config"
    /\ connTasks' = Remove(connTasks, t)
    /\ printerUi' = UpdateBluetoothDeviceDisplay(
                        printerUi, IF outcome = "ok" THEN Some(srvConfig) ELSE None)
    /\ UNCHANGED <<appRest, srvConfig, auxVars, statusVars, btnVars, swTasks,
                   nClicks, loaderHidden, btList, scanTasks, nShown, nCleared,
                   exits>>

\* A change of connection-type to type: handleConnectionSwitch up to its await.
HandleConnectionSwitch(type) ==
    /\ nClicks < MaxClicks
    /\ Room(swTasks)
    /\ type # printerUi.connectionType
    /\ nClicks' = nClicks + 1
    /\ printerUi' = [printerUi EXCEPT !.connectionType = type,
                                      !.btControlsHidden = (type # "bluetooth")]
    /\ swTasks' = Add(swTasks, [what |-> "type", value |-> type, pc |-> "post"])
    /\ UNCHANGED <<appRest, srvConfig, auxVars, statusVars, btnVars, scanVars>>

\* A change of protocol-select to protocol: handleProtocolSwitch up to its await.
HandleProtocolSwitch(protocol) ==
    /\ nClicks < MaxClicks
    /\ Room(swTasks)
    /\ protocol # printerUi.protocol
    /\ nClicks' = nClicks + 1
    /\ printerUi' = [printerUi EXCEPT !.protocol = protocol]
    /\ swTasks' = Add(swTasks, [what |-> "protocol", value |-> protocol,
                                pc |-> "post"])
    /\ UNCHANGED <<appRest, srvConfig, auxVars, statusVars, btnVars, scanVars>>

\* Either handler after its POST, ending without checkStatus on null.
SwitchPostedSilentOnNull(t, outcome) ==
    /\ BagIn(t, swTasks) /\ t.pc = "post"
    /\ IF outcome = "ok"
       THEN /\ srvConfig' = IF t.what = "type"
                            THEN [srvConfig EXCEPT !.printer.type = t.value]
                            ELSE [srvConfig EXCEPT !.printer.protocol = t.value]
            /\ swTasks' = Replace(swTasks, t, [t EXCEPT !.pc = "config"])
       ELSE /\ swTasks' = Remove(swTasks, t)
            /\ UNCHANGED srvConfig
    /\ UNCHANGED <<appRest, printerUi, auxVars, btnVars, scanVars, nClicks,
                   statusVars>>

\* Either handler after its POST: with a result GET /api/config follows, with
\* null checkStatus is called and the handler ends.
SwitchPosted(t, outcome) ==
    /\ BagIn(t, swTasks) /\ t.pc = "post"
    /\ IF outcome = "ok"
       THEN /\ srvConfig' = IF t.what = "type"
                            THEN [srvConfig EXCEPT !.printer.type = t.value]
                            ELSE [srvConfig EXCEPT !.printer.protocol = t.value]
            /\ swTasks' = Replace(swTasks, t, [t EXCEPT !.pc = "config"])
            /\ UNCHANGED statusTasks
       ELSE /\ StatusRoom
            /\ statusTasks' = Add(statusTasks, "manual")
            /\ swTasks' = Remove(swTasks, t)
            /\ UNCHANGED srvConfig
    /\ UNCHANGED <<appRest, printerUi, auxVars, btnVars, scanVars, nClicks,
                   statusBar, pollStarted, lastStatus>>

\* Either handler after GET /api/config: handleConnectionSwitch updates the
\* device display for a non-null config, handleProtocolSwitch logs; both call
\* checkStatus.
SwitchGotConfig(t, outcome) ==
    /\ BagIn(t, swTasks) /\ t.pc = "config"
    /\ StatusRoom
    /\ statusTasks' = Add(statusTasks, "manual")
    /\ swTasks' = Remove(swTasks, t)
    /\ printerUi' = IF outcome = "ok" /\ t.what = "type"
                    THEN UpdateBluetoothDeviceDisplay(printerUi, Some(srvConfig))
                    ELSE printerUi
    /\ UNCHANGED <<appRest, srvConfig, auxVars, btnVars, scanVars, nClicks,
                   statusBar, pollStarted, lastStatus>>

(***************************************************************************)
(* Workflows.  The handlers of one workflow write no variable that another *)
(* workflow's handlers read, apart from the image list, the modals and the *)
(* cached config, so each is explored with the handlers it interacts with. *)
(***************************************************************************)
\* The editor and the debounced settings synchronizer.
NextEditor ==
    \/ CloseEditor
    \/ \E card \in gallery.cards : OpenEditor(card.img)
    \/ Input
    \/ \E t \in timers : TimerFire(t)
    \/ \E t \in BagToSet(procTasks), o \in Outcomes : ProcessReturn(t, o)
    \/ \E t \in BagToSet(galTasks), o \in Outcomes : GalleryReturn(t, o)

SpecEditor == Init /\ [][NextEditor]_vars

\* The editor with its print button: one control, the debounced synchronizer
\* and printCurrentImage.
NextEditorPrint ==
    \/ \E card \in gallery.cards : OpenEditor(card.img)
    \/ \E v \in BOOLEAN : ControlInput("rawMode", v)
    \/ \E t \in timers : TimerFire(t)
    \/ \E t \in BagToSet(procTasks), o \in Outcomes : ProcessReturn(t, o)
    \/ \E t \in BagToSet(galTasks), o \in Outcomes : GalleryReturn(t, o)
    \/ PrintCurrentImage
    \/ \E t \in BagToSet(printTasks), o \in Outcomes : PrintReturn(t, o)
    \/ \E tm \in BagToSet(printTimers) : PrintTimerFire(tm)

SpecEditorPrint == Init /\ [][NextEditorPrint]_vars

\* The gallery with uploads and deletions; the settings stay closed.
NextGallery ==
    \/ CloseEditor
    \/ \E card \in gallery.cards : OpenEditor(card.img)
    \/ HandleUpload
    \/ \E t \in BagToSet(uploadTasks), id \in ImageIds, o \in Outcomes :
          UploadReturn(t, id, o)
    \/ DeleteConfirmed
    \/ \E t \in BagToSet(delTasks), o \in Outcomes, purge \in BOOLEAN :
          DeleteReturn(t, o, purge)
    \/ \E t \in BagToSet(galTasks), o \in Outcomes : GalleryReturn(t, o)
    \/ \E t \in BagToSet(cfgTasks), o \in Outcomes : LoadConfigGotConfig(t, o)
    \/ \E t \in BagToSet(cfgTasks), o \in Outcomes : LoadConfigGotImages(t, o)

SpecGallery == Init /\ [][NextGallery]_vars

\* The config cache and the GPIO assignments, with deletions; nothing is
\* uploaded.
NextGpio ==
    \/ CloseEditor
    \/ CloseSettings
    \/ OpenSettings
    \/ \E card \in gallery.cards : OpenEditor(card.img)
    \/ DeleteConfirmed
    \/ \E t \in BagToSet(delTasks), o \in Outcomes, purge \in BOOLEAN :
          DeleteReturn(t, o, purge)
    \/ \E t \in BagToSet(galTasks), o \in Outcomes : GalleryReturn(t, o)
    \/ \E t \in BagToSet(cfgTasks), o \in Outcomes : LoadConfigGotConfig(t, o)
    \/ \E t \in BagToSet(cfgTasks), o \in Outcomes : LoadConfigGotImages(t, o)
    \/ \E b \in Buttons, v \in ImageIds \cup {""} : HandleGpioChange(b, v)
    \/ \E t \in BagToSet(gpioTasks), o \in Outcomes : GpioPosted(t, o)

SpecGpio == Init /\ [][NextGpio]_vars

\* No request is awaiting its response and no debounce timeout is pending.
Idle ==
    /\ timers = {}
    /\ procTasks = EmptyBag /\ galTasks = EmptyBag /\ delTasks = EmptyBag
    /\ cfgTasks = EmptyBag /\ gpioTasks = EmptyBag /\ uploadTasks = EmptyBag

\* An image from its upload to its assignment and its processing: the gallery
\* with every handler that changes what it lists, for a user who waits for the
\* page to come to rest before the next action, and who changes the raw mode
\* in the editor and the assignment of button 1 in the settings.
NextJourney ==
    \/ Idle /\ CloseEditor
    \/ Idle /\ CloseSettings
    \/ Idle /\ OpenSettings
    \/ Idle /\ \E card \in gallery.cards : OpenEditor(card.img)
    \/ Idle /\ HandleUpload
    \/ \E t \in BagToSet(uploadTasks), id \in ImageIds, o \in Outcomes :
          UploadReturn(t, id, o)
    \/ Idle /\ \E v \in BOOLEAN : ControlInput("rawMode", v)
    \/ \E t \in timers : TimerFire(t)
    \/ \E t \in BagToSet(procTasks), o \in Outcomes : ProcessReturn(t, o)
    \/ \E t \in BagToSet(galTasks), o \in Outcomes : GalleryReturn(t, o)
    \/ \E t \in BagToSet(cfgTasks), o \in Outcomes : LoadConfigGotConfig(t, o)
    \/ \E t \in BagToSet(cfgTasks), o \in Outcomes : LoadConfigGotImages(t, o)
    \/ Idle /\ \E v \in ImageIds \cup {""} : HandleGpioChange("1", v)
    \/ \E t \in BagToSet(gpioTasks), o \in Outcomes : GpioPosted(t, o)

SpecJourney == Init /\ [][NextJourney]_vars

\* Every handler that changes what the gallery lists, deletions included, for
\* a user who waits for the page to come to rest and leaves an opened modal
\* open (deleting an image closes the editor).
NextRefresh ==
    \/ Idle /\ OpenSettings
    \/ Idle /\ \E card \in gallery.cards : OpenEditor(card.img)
    \/ Idle /\ HandleUpload
    \/ \E t \in BagToSet(uploadTasks), id \in ImageIds, o \in Outcomes :
          UploadReturn(t, id, o)
    \/ Idle /\ DeleteConfirmed
    \/ \E t \in BagToSet(delTasks), o \in Outcomes : DeleteReturn(t, o, FALSE)
    \/ Idle /\ \E v \in BOOLEAN : ControlInput("rawMode", v)
    \/ \E t \in timers : TimerFire(t)
    \/ \E t \in BagToSet(procTasks), o \in Outcomes : ProcessReturn(t, o)
    \/ \E t \in BagToSet(galTasks), o \in Outcomes : GalleryReturn(t, o)
    \/ \E t \in BagToSet(cfgTasks), o \in Outcomes : LoadConfigGotConfig(t, o)
    \/ \E t \in BagToSet(cfgTasks), o \in Outcomes : LoadConfigGotImages(t, o)
    \/ Idle /\ \E v \in ImageIds \cup {""} : HandleGpioChange("1", v)
    \/ \E t \in BagToSet(gpioTasks), o \in Outcomes : GpioPosted(t, o)

SpecRefresh == Init /\ [][NextRefresh]_vars

\* The connectivity status and the three guarded printer actions.
NextPrinter ==
    \/ PollTick
    \/ \E t \in BagToSet(statusTasks), data \in {None} \cup {Some(d) : d \in StatusBodies} :
          CheckStatusReturn(t, data)
    \/ ReconnectPrinter
    \/ \E t \in BagToSet(btnTasks), r \in Results : ReconnectPosted(t, r)
    \/ \E t \in BagToSet(btnTasks), o \in Outcomes : ReconnectGotConfig(t, o)
    \/ \E tm \in BagToSet(btnTimers) : RestoreTimerFire(tm)
    \/ DisconnectBluetooth
    \/ \E t \in BagToSet(btnTasks), r \in Results : DisconnectPosted(t, r)
    \/ UnpairBluetooth
    \/ \E t \in BagToSet(btnTasks), r \in Results : UnpairPosted(t, r)
    \/ \E t \in BagToSet(btnTasks), o \in Outcomes : UnpairGotConfig(t, o)
    \/ \E t \in BagToSet(cfgTasks), o \in Outcomes : LoadConfigGotConfig(t, o)
    \/ \E t \in BagToSet(cfgTasks), o \in Outcomes : LoadConfigGotImages(t, o)

SpecPrinter == Init /\ [][NextPrinter]_vars

\* The destructive actions and their confirmations; every status check fails.
NextConfirm ==
    \/ \E card \in gallery.cards : OpenEditor(card.img)
    \/ DeleteConfirmed
    \/ DeleteDeclined
    \/ \E t \in BagToSet(delTasks), o \in Outcomes : DeleteReturn(t, o, FALSE)
    \/ \E t \in BagToSet(galTasks), o \in Outcomes : GalleryReturn(t, o)
    \/ \E t \in BagToSet(statusTasks) : CheckStatusReturn(t, None)
    \/ DisconnectBluetooth
    \/ UnpairBluetooth
    \/ \E a \in {"disconnect", "unpair"} : ReturnEarly(a)
    \/ \E t \in BagToSet(btnTasks), r \in Results : DisconnectPosted(t, r)
    \/ \E t \in BagToSet(btnTasks), r \in Results : UnpairPosted(t, r)
    \/ \E t \in BagToSet(btnTasks), o \in Outcomes : UnpairGotConfig(t, o)
    \/ \E tm \in BagToSet(btnTimers) : RestoreTimerFire(tm)

SpecConfirm == Init /\ [][NextConfirm]_vars

\* The connection type and the protocol.
NextSwitch ==
    \/ PollTick
    \/ \E t \in BagToSet(statusTasks), data \in {None} \cup {Some(d) : d \in StatusBodies} :
          CheckStatusReturn(t, data)
    \/ \E type \in ConnectionTypes : HandleConnectionSwitch(type)
    \/ \E protocol \in Protocols : HandleProtocolSwitch(protocol)
    \/ \E t \in BagToSet(swTasks), o \in Outcomes : SwitchPosted(t, o)
    \/ \E t \in BagToSet(swTasks), o \in Outcomes : SwitchGotConfig(t, o)
    \/ \E t \in BagToSet(cfgTasks), o \in Outcomes : LoadConfigGotConfig(t, o)
    \/ \E t \in BagToSet(cfgTasks), o \in Outcomes : LoadConfigGotImages(t, o)

SpecSwitch == Init /\ [][NextSwitch]_vars

\* Bluetooth scan and connect, one scan at a time; a status check fails or is
\* answered Online.
NextScan ==
    \/ PollTick
    \/ \E t \in BagToSet(statusTasks), data \in {None, Some(Online)} :
          CheckStatusReturn(t, data)
    \/ scanTasks = EmptyBag /\ ScanBluetooth
    \/ \E t \in BagToSet(scanTasks), r \in ScanResponses : ScanReturn(t, r)
    \/ \E mac \in Macs : ConnectBluetooth(mac)
    \/ \E t \in BagToSet(connTasks), r \in ConnectResults : ConnectPosted(t, r)
    \/ \E t \in BagToSet(connTasks), o \in Outcomes : ConnectGotConfig(t, o)

SpecScan == Init /\ [][NextScan]_vars

\* Scans that overlap: scan-bt-btn is not disabled while a scan is under way.
NextDiscovery ==
    \/ ScanBluetooth
    \/ \E t \in BagToSet(scanTasks), r \in ScanResponses : ScanReturn(t, r)

SpecDiscovery == Init /\ [][NextDiscovery]_vars

\* What answers or fires without the user: the responses of the requests in
\* flight and the timeouts pending. Status checks and connects fail;
\* the other requests fail or succeed.
StatusAnswers == \E t \in BagToSet(statusTasks) : CheckStatusReturn(t, None)
ScanAnswers ==
    \E t \in BagToSet(scanTasks), r \in {None, Some([devices |-> Some(<<"M1">>)])} :
        ScanReturn(t, r)
ConnectAnswers == \E t \in BagToSet(connTasks) : ConnectPosted(t, None)
ButtonAnswers ==
    \/ \E t \in BagToSet(btnTasks), r \in Results : ReconnectPosted(t, r)
    \/ \E t \in BagToSet(btnTasks), o \in Outcomes : ReconnectGotConfig(t, o)
    \/ \E t \in BagToSet(btnTasks), r \in Results : DisconnectPosted(t, r)
    \/ \E t \in BagToSet(btnTasks), r \in Results : UnpairPosted(t, r)
    \/ \E t \in BagToSet(btnTasks), o \in Outcomes : UnpairGotConfig(t, o)
ButtonTimeouts == \E tm \in BagToSet(btnTimers) : RestoreTimerFire(tm)
PrintAnswers == \E t \in BagToSet(printTasks), o \in Outcomes : PrintReturn(t, o)
PrintTimeouts == \E tm \in BagToSet(printTimers) : PrintTimerFire(tm)
UploadAnswers ==
    \E t \in BagToSet(uploadTasks), id \in ImageIds, o \in Outcomes : UploadReturn(t, id, o)
GalleryAnswers == \E t \in BagToSet(galTasks), o \in Outcomes : GalleryReturn(t, o)

\* No request is awaiting its response and no timeout is pending.
Settled ==
    /\ scanTasks = EmptyBag /\ connTasks = EmptyBag /\ btnTasks = EmptyBag
    /\ printTasks = EmptyBag /\ uploadTasks = EmptyBag /\ galTasks = EmptyBag
    /\ btnTimers = EmptyBag /\ printTimers = EmptyBag /\ statusTasks = EmptyBag

\* The actions that disable a control or show a loader, one at a time, with
\* their requests failing or succeeding.
NextRecovery ==
    \/ Settled /\ ScanBluetooth
    \/ Settled /\ \E mac \in Macs : ConnectBluetooth(mac)
    \/ Settled /\ ReconnectPrinter
    \/ Settled /\ DisconnectBluetooth
    \/ Settled /\ UnpairBluetooth
    \/ Settled /\ \E card \in gallery.cards : OpenEditor(card.img)
    \/ Settled /\ PrintCurrentImage
    \/ Settled /\ HandleUpload
    \/ StatusAnswers
    \/ ScanAnswers
    \/ ConnectAnswers
    \/ ButtonAnswers
    \/ ButtonTimeouts
    \/ PrintAnswers
    \/ PrintTimeouts
    \/ UploadAnswers
    \/ GalleryAnswers

\* Every request eventually returns and every timeout eventually fires.
RecoveryFairness ==
    /\ WF_vars(StatusAnswers)
    /\ WF_vars(ScanAnswers)
    /\ WF_vars(ConnectAnswers)
    /\ WF_vars(ButtonAnswers)
    /\ WF_vars(ButtonTimeouts)
    /\ WF_vars(PrintAnswers)
    /\ WF_vars(PrintTimeouts)
    /\ WF_vars(UploadAnswers)
    /\ WF_vars(GalleryAnswers)

SpecRecovery == Init /\ [][NextRecovery]_vars /\ RecoveryFairness

(***************************************************************************)
(* callApi, for any request and any behaviour of the network               *)
(***************************************************************************)
Urls == {"/api/status", "/api/images/A", "/api/bluetooth/connect"}
Methods == {"GET", "POST", "DELETE"}

\* The body argument: left out (null), an object, or a value JSON.stringify
\* throws on.
Bodies == {"none", "object", "unserializable"}

\* What fetch does: it rejects (no response), or resolves with a response of
\* some status whose body text is a JSON object, the JSON literal null, not
\* JSON, or empty.
Statuses == {200, 204, 404, 500}
Payloads == {"object", "null", "malformed", "empty"}
Answers ==
    {[kind |-> "rejected", status |-> 0, payload |-> "empty"]}
    \cup [kind : {"response"}, status : Statuses, payload : Payloads]

\* How a piece of code ends: it returns a value or throws.
Returned(v) == [raised |-> FALSE, value |-> v]
Thrown == [raised |-> TRUE, value |-> NULL]

\* res.ok
Ok(res) == res.status \in 200..299

\* res.json(): throws on a body that is not JSON, the empty body included.
Json(res) ==
    IF res.payload \in {"malformed", "empty"} THEN Thrown
    ELSE Returned(IF res.payload = "null" THEN NULL ELSE "object")

\* The try block of callApi.
TryBlock(method, body, net) ==
    IF body = "unserializable" THEN Thrown
    ELSE IF net.kind = "rejected" THEN Thrown
    ELSE IF ~Ok(net) THEN Thrown
    ELSE IF method = "GET" \/ net.status # 204 THEN Json(net)
    ELSE Returned(NULL)

\* callApi without its catch clause.
CallApiRethrowing(url, method, body, net) ==
    LET r == TryBlock(method, body, net)
    IN  [raised |-> r.raised, value |-> r.value, logged |-> FALSE]

\* callApi: what the try block returns, or null after console.error.
CallApi(url, method, body, net) ==
    LET r == TryBlock(method, body, net)
    IN  IF r.raised THEN [raised |-> FALSE, value |-> NULL, logged |-> TRUE]
        ELSE [raised |-> FALSE, value |-> r.value, logged |-> FALSE]

\* One run of callApi.
CallApiRun(url, method, body, net) ==
    /\ api' = Some([url |-> url, method |-> method, body |-> body, net |-> net,
                    out |-> CallApi(url, method, body, net)])
    /\ UNCHANGED <<appVars, labelVars, printVars, declined, lastConnect, statusVars, btnVars,
                   scanVars, swTasks, nClicks>>

NextApi ==
    \E url \in Urls, method \in Methods, body \in Bodies, net \in Answers :
        CallApiRun(url, method, body, net)

SpecApi == Init /\ [][NextApi]_vars

(***************************************************************************)
(* The label of a card, for any image the backend may list                 *)
(***************************************************************************)
\* The dither_method of a listed image: absent, or a name of up to MaxWords
\* words.
MethodNames ==
    {<<>>} \cup {JoinWords(ws) : ws \in UNION {[1..n -> Words] : n \in 1..MaxWords}}

\* refreshGallery renders the card of an image with these attributes.
RenderCard(dither_method, raw_mode) ==
    /\ labelImg' = [dither_method |-> dither_method, raw_mode |-> raw_mode]
    /\ labelText' = MethodLabel(dither_method, raw_mode)
    /\ UNCHANGED <<appVars, statusVars, btnVars, scanVars, swTasks, nClicks,
                   printVars, api, declined, lastConnect>>

NextLabel ==
    \E d \in MethodNames, r \in {None, Some(TRUE), Some(FALSE)} : RenderCard(d, r)

SpecLabel == Init /\ [][NextLabel]_vars

(***************************************************************************)
(* Properties of the debounced settings synchronizer (SpecEditor)          *)
(***************************************************************************)
ControlNames == {"xOffset", "yOffset", "autoFit", "dither", "rawMode"}

\* The images under which the values a request carries were entered.
EnteredUnder(t) == {t.ctl[c].by : c \in ControlNames} \ {NULL}

\* C1: a burst of control inputs, each within the debounce delay of the one
\* before, leads to exactly one process request once the quiet period has
\* elapsed (at most one timeout is pending, and the requests issued plus the
\* burst still pending count the bursts), and the request carries the values
\* the controls hold when the timeout fires.
C1_OneRequestPerBurst ==
    /\ Cardinality(timers) <= 1
    /\ nProcess + Cardinality(timers) = nBursts
    /\ \A t \in BagToSet(procTasks) :
          /\ t.payload.x_offset = ParseInt(t.ctl.xOffset.v)
          /\ t.payload.y_offset = ParseInt(t.ctl.yOffset.v)
          /\ t.payload.auto_fit = t.ctl.autoFit.v
          /\ t.payload.dither_method = t.ctl.dither.v
          /\ t.payload.raw_mode = t.ctl.rawMode.v

\* Two inputs in one burst have produced one request, now in flight.
C1_Witness ==
    /\ nInputs = 2
    /\ nBursts = 1
    /\ nProcess = 1
    /\ timers = {}
    /\ BagCardinality(procTasks) = 1

\* C2: when the editor was closed, or showed another image, by the time the
\* timeout fired, no request is sent for the image that was being edited
\* when the timeout was scheduled.
C2_NoRequestAfterClose ==
    \A t \in BagToSet(procTasks) :
        (t.closed \/ t.id # t.schedId) => t.id # t.schedId

\* C3: a request targets the image that was open when its timeout was
\* scheduled.
C3_TargetsScheduledImage ==
    \A t \in BagToSet(procTasks) : t.id = t.schedId

\* C4: a request addressed to an image carries no value the user entered
\* while another image was open.
C4_NoForeignValues ==
    \A t \in BagToSet(procTasks) : EnteredUnder(t) \subseteq {t.id}

\* A timeout scheduled while one image was open has fired after the editor
\* switched to another, and its request is in flight.
C4_Witness ==
    \E t \in BagToSet(procTasks) : t.id # t.schedId /\ ~t.closed


(***************************************************************************)
(* Properties of deletion (SpecGallery)                                    *)
(***************************************************************************)
\* The images a render shows.
Shown(g) == {card.img.id : card \in g.cards}

\* C9: when a confirmed deleteCurrentImage has got its response the editor
\* is hidden and a gallery refresh is under way, and the render of that
\* refresh does not show the image the backend has deleted.
C9_DeleteClosesAndRemoves ==
    [][/\ \A t \in BagToSet(delTasks) :
             delTasks' = Remove(delTasks, t) =>
                 /\ editorHidden'
                 /\ \E g \in BagToSet(galTasks') :
                        /\ g.cause = "delete"
                        /\ CopiesIn(g, galTasks') > CopiesIn(g, galTasks)
       /\ \A g \in BagToSet(galTasks) :
             (galTasks' = Remove(galTasks, g) /\ g.gone # NULL) =>
                 g.gone \notin Shown(gallery')]_vars

\* The open image A has been deleted and the refresh that followed has
\* rendered the rest of the list.
C9_Witness ==
    /\ currentImageId = "A"
    /\ editorHidden
    /\ ~SrvHas("A")
    /\ delTasks = EmptyBag
    /\ galTasks = EmptyBag
    /\ gallery.cards # {}
    /\ "A" \notin Shown(gallery)

(***************************************************************************)
(* Properties of the GPIO assignments (SpecGpio)                           *)
(***************************************************************************)
\* C5: the mapping a change of one button writes to /api/config holds, for
\* each of the three other buttons, the value the button had in the last
\* config the backend returned.
C5_SiblingsKept ==
    \A t \in BagToSet(gpioTasks) :
        \A b \in Buttons \ {t.btn} :
            t.confirmed # None =>
                t.body.button_assignments[b] = Get(t.confirmed).button_assignments[b]

(***************************************************************************)
(* Properties of the printer session (SpecPrinter)                         *)
(***************************************************************************)
\* The invocations of a handler that have not returned.
InFlight(a) == {t \in BagToSet(btnTasks) : t.act = a}
Invocations(a) ==
    BagCardinality([t \in InFlight(a) |-> CopiesIn(t, btnTasks)])

\* C6: while an invocation of reconnect, disconnect or unpair has not
\* completed, a second trigger of the same action starts no second
\* invocation, so that at most one invocation of each is ever in flight.
C6_NoSecondInvocation ==
    \A a \in ButtonActs : Invocations(a) <= 1

\* C8: after a non-null status response, whoever asked for it, the indicator
\* shows Online exactly when the response's connected is true or its status
\* is "connected", and Offline otherwise.
C8_IndicatorFollowsResponse ==
    lastStatus # None =>
        LET body == Get(lastStatus).body
            online == body.connected = Some(TRUE) \/ body.status = "connected"
        IN  /\ statusBar.text = (IF online THEN "Online" ELSE "Offline")
            /\ statusBar.dot = (IF online THEN "status-indicator online"
                                ELSE "status-indicator offline")

\* A check made by a manual action was answered with connected false and
\* status "connected".
C8_Witness ==
    /\ lastStatus # None
    /\ Get(lastStatus).cause = "manual"
    /\ Get(lastStatus).body = [connected |-> Some(FALSE), status |-> "connected"]

(***************************************************************************)
(* Properties of the Bluetooth scan (SpecScan)                             *)
(***************************************************************************)
\* C7: every invocation of scanBluetooth shows the loader and clears it
\* exactly once, however the scan ends: the loader has been cleared once for
\* each invocation that has ended, and it is hidden when none is under way.
C7_LoaderClearedOnce ==
    /\ nCleared + BagCardinality(scanTasks) = nShown
    /\ (nShown > 0 /\ scanTasks = EmptyBag) => loaderHidden

\* Three scans have ended, one with devices, one with none and one failed.
C7_Witness ==
    /\ exits = {"devices", "none", "failed"}
    /\ nShown = 3
    /\ nCleared = 3
    /\ scanTasks = EmptyBag

(***************************************************************************)
(* Properties of the gallery label (SpecLabel)                             *)
(***************************************************************************)
\* Every occurrence of the one-character pattern replaced.
ReplaceAll(s, from, to) == [i \in DOMAIN s |-> IF s[i] = from THEN to ELSE s[i]]

\* C10: the label of a rendered card is "RAW" when raw_mode is true, and
\* otherwise the dither method's name (floyd_steinberg when the image has
\* none) with every underscore replaced by a space, in upper case.
C10_LabelText ==
    labelText # <<>> =>
        labelText =
            IF labelImg.raw_mode = Some(TRUE) THEN RawLabel
            ELSE ToUpperCase(ReplaceAll(IF labelImg.dither_method = <<>>
                                        THEN FloydSteinberg
                                        ELSE labelImg.dither_method, "_", " "))

(***************************************************************************)
(* Properties of callApi (SpecApi)                                         *)
(***************************************************************************)
\* The response body is read: every GET, and every other method unless the
\* status is 204.
BodyRead(c) == c.method = "GET" \/ c.net.status # 204

\* C11: callApi never raises to its caller: whatever the endpoint, the method
\* and the body, it returns; it returns null when the transport fails, when
\* the status is not 2xx and when the response body is malformed; and it has
\* logged the failure whenever one was raised inside it.
C11_CallApiNeverRaises ==
    api # None =>
        LET c == Get(api)
        IN  /\ ~c.out.raised
            /\ (\/ c.body = "unserializable"
                \/ c.net.kind = "rejected"
                \/ ~Ok(c.net)
                \/ c.net.payload = "malformed") => c.out.value = NULL
            /\ (\/ c.body = "unserializable"
                \/ c.net.kind = "rejected"
                \/ ~Ok(c.net)
                \/ (BodyRead(c) /\ c.net.payload \in {"malformed", "empty"}))
                   => c.out.logged

\* A POST answered with status 500 has returned null after logging.
C11_Witness ==
    /\ api # None
    /\ Get(api).method = "POST"
    /\ Get(api).net.kind = "response"
    /\ Get(api).net.status = 500
    /\ Get(api).out = [raised |-> FALSE, value |-> NULL, logged |-> TRUE]

\* C12: a null result of callApi means the operation did not happen: callApi
\* never returns null for a request the server answered with a 2xx status.
C12_NullMeansNotDone ==
    api # None =>
        (Get(api).out.value = NULL =>
            ~(Get(api).net.kind = "response" /\ Ok(Get(api).net)))


(***************************************************************************)
(* Properties of the status poller (SpecSwitch)                            *)
(***************************************************************************)
\* C13: at any moment at most one checkStatus request is in flight, also when
\* a check takes longer than the polling interval and when manual actions
\* trigger checkStatus.
C13_OneCheckInFlight == BagCardinality(statusTasks) <= 1

\* C14: after the status check issued at startup, a tick of the 5 s interval
\* issues one more whatever the state of the checks before it: no check that
\* is slow or has failed, the first one included, blocks a tick.
C14_TicksNeverBlocked == StatusRoom => ENABLED PollTick

\* C15: a status check whose fetch failed (callApi returned null, so no
\* response was recorded) leaves the text and the dot class of the indicator
\* exactly as they were.
C15_FailedCheckKeepsIndicator ==
    [][\A t \in BagToSet(statusTasks) :
          (statusTasks' = Remove(statusTasks, t) /\ lastStatus' = lastStatus)
              => statusBar' = statusBar]_vars

\* Every check made so far has failed, the one at startup included, and the
\* indicator is as the page was loaded.
C15_Witness ==
    /\ statusTasks = EmptyBag
    /\ pollStarted
    /\ lastStatus = None
    /\ statusBar = [text |-> "", dot |-> ""]


(***************************************************************************)
(* Properties of the confirmations (SpecConfirm)                           *)
(***************************************************************************)
\* C16: when the user declines the confirmation of a destructive action
\* (delete image, disconnect, unpair), no request is issued and no state of
\* the page changes: the button of a declined disconnect or unpair is enabled
\* with its original label, and after a declined delete the editor is open on
\* the same image.
C16_DeclineChangesNothing ==
    [][declined' # declined =>
          /\ UNCHANGED <<delTasks, btnTasks, statusTasks, galTasks, cfgTasks,
                         procTasks, gpioTasks, uploadTasks, scanTasks, connTasks,
                         swTasks>>
          /\ UNCHANGED <<appVars, labelVars, printVars, api, lastConnect, statusVars, btnVars,
                         scanVars, swTasks, nClicks>>
          /\ declined' = "delete" =>
                 /\ ~editorHidden'
                 /\ currentImageId' = currentImageId
                 /\ currentImageId' # NULL
          /\ declined' \in {"disconnect", "unpair"} =>
                 btn'[declined'] = [disabled |-> FALSE, text |-> OriginalText(declined')]
    ]_vars

\* The deletion of image A has just been declined, after a disconnect or an
\* unpairing that the user confirmed.
C16_Witness ==
    /\ declined = "delete"
    /\ nClicks > 0
    /\ ~editorHidden
    /\ currentImageId = "A"
    /\ SrvHas("A")
    /\ delTasks = EmptyBag


(***************************************************************************)
(* Properties of the reconnect button (SpecPrinter)                        *)
(***************************************************************************)
\* The reconnect request of an invocation is outstanding.
Reconnecting == \E t \in BagToSet(btnTasks) : t.act = "reconnect" /\ t.pc = "post"

\* The timeout that restores the reconnect button is pending.
RestorePending ==
    \E tm \in BagToSet(btnTimers) :
        tm = RestoreTimer("reconnect", OriginalText("reconnect"))

\* C17: reconnectPrinter keeps its button disabled for the whole duration of
\* the reconnect request, and whatever the outcome (success, failure reported
\* by the server, null) the timeout that restores the original label and
\* enables the button is pending from the moment the outcome is shown; the
\* enabled button carries the original label.
C17_ReconnectButtonRestored ==
    /\ Reconnecting =>
           btn["reconnect"] = [disabled |-> TRUE, text |-> "Reconnecting..."]
    /\ btn["reconnect"].disabled /\ ~Reconnecting =>
           /\ btn["reconnect"].text \in {"Connected", "Failed"}
           /\ RestorePending
    /\ ~btn["reconnect"].disabled =>
           /\ btn["reconnect"].text = OriginalText("reconnect")
           /\ ~RestorePending

\* The outcome of a reconnect has been shown and the timeout has restored the
\* button, while the invocation still awaits the refreshed configuration.
C17_Witness ==
    /\ \E t \in BagToSet(btnTasks) : t.act = "reconnect" /\ t.pc = "config"
    /\ ~RestorePending
    /\ btn["reconnect"] = [disabled |-> FALSE, text |-> "Reconnect"]


(***************************************************************************)
(* Properties of the connection-type and protocol switches (SpecSwitch)    *)
(***************************************************************************)
\* The invocation t of handleConnectionSwitch takes a step: it leaves the
\* await it was at.
Resumes(t) ==
    /\ t.what = "type"
    /\ CopiesIn(t, swTasks') < CopiesIn(t, swTasks)

\* t goes on to await GET /api/config.
RefreshesConfig(t) == swTasks' = Replace(swTasks, t, [t EXCEPT !.pc = "config"])

\* t ends, and a status check is issued in the same step.
EndsWithCheck(t) ==
    /\ swTasks' = Remove(swTasks, t)
    /\ statusTasks' = Add(statusTasks, "manual")

C19_ShownProtocolAccepted ==
    (\A t \in BagToSet(swTasks) : t.what # "protocol")
        => printerUi.protocol = srvConfig.printer.protocol


Leaves(t) == CopiesIn(t, btnTasks') < CopiesIn(t, btnTasks)

\* t ends, and a status check is issued in the same step.
EndsChecking(t) ==
    /\ btnTasks' = Remove(btnTasks, t)
    /\ statusTasks' = Add(statusTasks, "manual")

\* C21: an unpair that has completed (the button shows "Unpaired") goes on to
\* refresh Config and issues a status check when the refresh has returned; an
\* unpair that failed, and every disconnect, issues a status check only: a
\* disconnect never awaits a Config fetch.
C21_UnpairRefreshesDisconnectDoesNot ==
    [][/\ \A t \in BagToSet(btnTasks) :
             (t.act = "unpair" /\ Leaves(t)) =>
                 IF t.pc = "config" THEN EndsChecking(t)
                 ELSE IF btn'["unpair"].text = "Unpaired"
                      THEN /\ btnTasks' = Replace(btnTasks, t, [t EXCEPT !.pc = "config"])
                           /\ statusTasks' = statusTasks
                      ELSE EndsChecking(t)
       /\ \A t \in BagToSet(btnTasks) :
             (t.act = "disconnect" /\ Leaves(t)) =>
                 /\ t.pc = "post"
                 /\ EndsChecking(t)
       /\ \A t \in BagToSet(btnTasks') : t.act = "disconnect" => t.pc = "post"
    ]_vars

\* An unpair has completed: its Config refresh has returned, the status check
\* it issued is in flight, and the button still shows "Unpaired".
C21_Witness ==
    /\ btn["unpair"] = [disabled |-> TRUE, text |-> "Unpaired"]
    /\ \A t \in BagToSet(btnTasks) : t.act # "unpair"
    /\ BagIn("manual", statusTasks)
    /\ BagIn(RestoreTimer("unpair", "Unpair"), btnTimers)


(***************************************************************************)
(* Properties of the gallery refresh (SpecRefresh)                         *)
(***************************************************************************)
\* One more refreshGallery awaits GET /api/images.
FetchIssued == BagCardinality(galTasks') = BagCardinality(galTasks) + 1

\* C22: every action that changes what the backend lists (a successful
\* upload, a delete, a successful processing update) issues a fetch of
\* /api/images in the step that handles its response, as does every delete
\* and every processing update that failed; a GPIO assignment change issues
\* the Config reload that is followed by that fetch; and every fetch that
\* returns replaces the whole gallery by the render of what it returned.
C22_ChangesRefetch ==
    [][/\ srvImages' # srvImages => FetchIssued
       /\ (\E t \in BagToSet(delTasks) : delTasks' = Remove(delTasks, t)) => FetchIssued
       /\ (\E t \in BagToSet(procTasks) : procTasks' = Remove(procTasks, t)) => FetchIssued
       /\ (\E t \in BagToSet(gpioTasks) : gpioTasks' = Remove(gpioTasks, t)) =>
              cfgTasks' = Add(cfgTasks, LoadConfigCall("gallery"))
       /\ \A t \in BagToSet(cfgTasks) :
              (t.then = "gallery" /\ cfgTasks' = Remove(cfgTasks, t)) =>
                  galTasks' = Add(galTasks, GalleryCall("gpio", NULL))
       /\ (\E t \in BagToSet(galTasks) : galTasks' = Remove(galTasks, t)) =>
              \/ gallery' = [cards |-> {Card(globalConfig, img) : img \in srvImages},
                             placeholder |-> FALSE]
              \/ gallery' = [cards |-> {}, placeholder |-> TRUE]
    ]_vars

\* A processing update has set the raw mode of an image, and the fetch it
\* issued is in flight while the gallery still shows the image as it was.
C22_Witness ==
    /\ BagIn(GalleryCall("process", NULL), galTasks)
    /\ \E img \in srvImages : img.raw_mode = Some(TRUE)
    /\ \A card \in gallery.cards : card.img.raw_mode # Some(TRUE)


(***************************************************************************)
(* Properties of the preview (SpecEditor)                                  *)
(***************************************************************************)
\* C23: whenever a processing request is in flight the preview is dimmed
\* (opacity 0.5), also when a second debounced request has been issued while
\* an earlier one is in flight; when none is in flight the opacity is normal.
C23_DimmedWhileInFlight ==
    /\ procTasks # EmptyBag => previewOpacity = "0.5"
    /\ (procTasks = EmptyBag /\ nProcess > 0) => previewOpacity = "1"


(***************************************************************************)
(* Properties of the gallery from upload to processing (SpecJourney)       *)
(***************************************************************************)
\* A refreshGallery has rendered the list it fetched.
RendersList(t) ==
    /\ galTasks' = Remove(galTasks, t)
    /\ ~gallery'.placeholder

\* C24: every render of a fetched list shows each image of the backend, so an
\* uploaded image appears with the render its upload issues; an image as
\* uploaded is labelled FLOYD STEINBERG and an image whose raw_mode is true is
\* labelled RAW; an image no button is assigned to has no badge; and the
\* render that follows an assignment change and the reload of the Config
\* shows the badge BTN 1 on the image assigned to button "1".
C24_UploadAssignProcess ==
    [][\A t \in BagToSet(galTasks) :
          RendersList(t) =>
              /\ {card.img : card \in gallery'.cards} = srvImages
              /\ \A card \in gallery'.cards :
                     /\ card.img = FreshImage(card.img.id) =>
                            CardLabel(card) =
                                <<"F","L","O","Y","D"," ","S","T","E","I","N","B","E","R","G">>
                     /\ card.img.raw_mode = Some(TRUE) =>
                            CardLabel(card) = <<"R","A","W">>
                     /\ (\A b \in Buttons :
                             srvConfig.button_assignments[b] # card.img.id) =>
                            card.badge = <<>>
                     /\ (/\ t.cause = "gpio"
                         /\ globalConfig # None
                         /\ srvConfig.button_assignments["1"] = card.img.id) =>
                            card.badge = <<"1">>]_vars

\* The page is at rest and the gallery shows image C, uploaded in this run,
\* with the badge of button 1 and the label RAW.
C24_Witness ==
    /\ Idle
    /\ \E card \in gallery.cards :
           /\ card.img.id = "C"
           /\ card.img.raw_mode = Some(TRUE)
           /\ card.badge = <<"1">>
           /\ CardLabel(card) = RawLabel
    /\ srvConfig.button_assignments["1"] = "C"

(***************************************************************************)
(* Recovery after a failed request                                         *)
(***************************************************************************)
\* A control as it is before its action: enabled, with the label of the page.
Neutral(a) == btn[a] = [disabled |-> FALSE, text |-> OriginalText(a)]
PrintNeutral == printBtn = [disabled |-> FALSE, text |-> PrintLabel]

\* C25: provided every request returns and every timeout fires, a control an
\* action has disabled is eventually enabled again with its original label,
\* the scan loader it has shown is eventually hidden and the upload button
\* gets its label back, whether the request failed or not.
C25_ControlsRecover ==
    /\ \A a \in ButtonActs : btn[a].disabled ~> Neutral(a)
    /\ printBtn.disabled ~> PrintNeutral
    /\ ~loaderHidden ~> loaderHidden
    /\ (uploadBtnText = "Uploading...") ~> (uploadBtnText = "Upload Image")

\* A scan and a print request have failed; every control is back and nothing
\* is in flight.
C25_Witness ==
    /\ "failed" \in exits
    /\ lastPrint = "fail"
    /\ Settled
    /\ \A a \in ButtonActs : Neutral(a)
    /\ PrintNeutral
    /\ loaderHidden
    /\ uploadBtnText = "Upload Image"

(***************************************************************************)
(* The debounce slot                                                       *)
(***************************************************************************)
\* C26: at most one debounce timeout is pending, and it is the one whose
\* handle debounceTimer holds: scheduleProcessUpdate cancels the timeout
\* pending before it schedules a new one.
C26_SingleSlot ==
    \A t, u \in timers : t = u /\ t.tid = debounceTimer

\* A second input has replaced the timeout of the first: one timeout is
\* pending, the second one.
C26_Witness ==
    /\ nInputs = 2
    /\ nProcess = 0
    /\ \E t \in timers : t.tid = 2

(***************************************************************************)
(* The write of a GPIO assignment change                                   *)
(***************************************************************************)
\* The step in which POST /api/config of handleGpioChange returns.
Written == \E t \in BagToSet(gpioTasks) : gpioTasks' = Remove(gpioTasks, t)
\* The step in which the loadConfig that handleGpioChange awaits ends.
Reloaded ==
    \E t \in BagToSet(cfgTasks) : t.then = "gallery" /\ cfgTasks' = Remove(cfgTasks, t)
\* The step in which handleGpioChange calls refreshGallery.
RefreshStarted == galTasks' = Add(galTasks, GalleryCall("gpio", NULL))

\* C27: the body of a GPIO assignment write holds button_assignments, a
\* mapping of the buttons "1".."4", and no other field of the config; the write
\* leaves image_settings and the printer settings of the stored config as they
\* were; when it returns the config is reloaded, and the gallery is refreshed
\* when that reload ends, not before.
C27_PartialWriteThenReloads ==
    /\ [](\A t \in BagToSet(gpioTasks) :
             /\ DOMAIN t.body = {"button_assignments"}
             /\ DOMAIN t.body.button_assignments = Buttons)
    /\ [][/\ Written =>
               /\ srvConfig'.image_settings = srvConfig.image_settings
               /\ srvConfig'.printer = srvConfig.printer
               /\ cfgTasks' = Add(cfgTasks, LoadConfigCall("gallery"))
               /\ galTasks' = galTasks
           /\ Reloaded <=> RefreshStarted]_vars

\* A write has moved button "1" to another image, the config has been
\* reloaded and the gallery refresh is in flight.
C27_Witness ==
    /\ nGpio > 0
    /\ srvConfig.button_assignments["1"] # InitialConfig.button_assignments["1"]
    /\ srvConfig.image_settings = InitialConfig.image_settings
    /\ srvConfig.printer = InitialConfig.printer
    /\ globalConfig = Some(srvConfig)
    /\ BagIn(GalleryCall("gpio", NULL), galTasks)

(***************************************************************************)
(* The discovery list under overlapping scans (SpecDiscovery)              *)
(***************************************************************************)
\* C28: the device entries bt-device-list shows at one time all come from one
\* invocation of scanBluetooth, for any interleaving of scans.
C28_OneScanShown ==
    \A i, j \in DOMAIN btList.found : btList.found[i].scan = btList.found[j].scan

(***************************************************************************)
(* The badges after startup (SpecGallery)                                  *)
(***************************************************************************)
\* The startup loadConfig and the startup refreshGallery have both ended, each
\* with the answer of the backend, and nothing has been uploaded, opened or
\* deleted since.
StartupDone ==
    /\ galTasks = EmptyBag /\ cfgTasks = EmptyBag
    /\ uploadTasks = EmptyBag /\ delTasks = EmptyBag
    /\ globalConfig # None
    /\ gallery.cards # {}
    /\ currentImageId = NULL
    /\ srvImages = InitialImages

\* C29: once the startup config load and the startup gallery fetch have both
\* succeeded, the badge of every card lists exactly the buttons the stored
\* button_assignments maps to the card's image (no badge when there is none),
\* in whichever order the two responses arrived.
C29_BadgesAfterStartup ==
    StartupDone =>
        \A card \in gallery.cards :
            card.badge = ButtonBadge(Some(srvConfig), card.img.id)

\* C30: the gallery is hidden (display none) exactly when the editor or the
\* settings modal is open; after the editor has been closed, by its close
\* button or by deleteCurrentImage, the gallery is visible again.
C30_GalleryHiddenIffModalOpen ==
    (galleryDisplay = "none") <=> (~editorHidden \/ ~settingsHidden)

(***************************************************************************)
(* The config cache after a failed fetch (SpecRefresh)                     *)
(***************************************************************************)
\* C31: a failed GET /api/config inside loadConfig leaves the cache as it was:
\* globalConfig is the last config a fetch has returned (null before the
\* first), so a later render shows the badges of that snapshot.
C31_CacheKeepsLastSnapshot ==
    globalConfig = lastConfirmed


(***************************************************************************)
(* Overlapping status checks (SpecSwitch)                                  *)
(***************************************************************************)
\* The startup check is issued before every other check and the poller only
\* starts once it has returned, so while it is in flight after one switch
\* handler has run to its end, the handler's check is the most recently issued
\* one.
OlderCheckReturnsLast ==
    /\ BagIn("startup", statusTasks)
    /\ statusTasks' = EmptyBag
    /\ nClicks = 1
    /\ swTasks = EmptyBag
    /\ lastStatus # None

\* C32: once all overlapping status checks have completed, the indicator
\* shows the response to the most recently issued check: when the startup
\* check is the last to return, after the check of a later switch has been
\* answered, the indicator still shows the answer to the later check.
C32_LatestCheckWins ==
    [][OlderCheckReturnsLast => statusBar' = StatusBarOf(Get(lastStatus).body)]_vars

(***************************************************************************)
(* Printing while a settings update is under way (SpecEditorPrint)         *)
(***************************************************************************)
\* A step of printCurrentImage that issues POST /api/images/{id}/print.
PrintIssued ==
    BagCardinality(printTasks') > BagCardinality(printTasks)

\* A debounced processing update of the image is pending (its timeout has not
\* fired) or in flight (its POST has not returned).
UpdateUnderWay(id) ==
    \/ \E tm \in timers : tm.schedId = id
    \/ \E p \in BagToSet(procTasks) : p.id = id

\* C33: printCurrentImage never issues a print request for an image while a
\* debounced processing update for that image is still pending or in flight.
C33_NoPrintDuringUpdate ==
    [][PrintIssued => ~UpdateUnderWay(currentImageId)]_vars
====
